---- MODULE Spec2Model ----
(***************************************************************************)
(* Currency conversion, formatting and quote caching of src/lib/currency.ts *)
(* over the constants of the constants module and the browser key-value    *)
(* store (localStorage).                                                   *)
(*                                                                         *)
(* JavaScript numbers are modelled as decimal numbers m * 10^(-e).  Sums   *)
(* and products of the short decimals of the model are exact (an IEEE      *)
(* double errs on them by less than 1e-12, far below anything the program  *)
(* rounds or compares); a quotient rounds to nearest at Precision          *)
(* significant digits, as a double quotient rounds at 53 bits, so          *)
(* x * r / r is not x in general.  NaN and the infinities are values.      *)
(* JavaScript strings are sequences of one-character strings.              *)
(***************************************************************************)
EXTENDS Integers, Sequences, FiniteSets, TLC

VARIABLES
    now,      \* the wall clock, new Date().getTime(), in milliseconds
    store,    \* localStorage: key -> stored text (or absent)
    last,     \* the most recent call on the cache and what it did
    inp,      \* the arguments of a call of a pure function
    out,      \* its result (Pending until the call is made)
    table,    \* the object the module constant USD_EXCHANGE_RATES refers to
    tabs      \* the callers that share the store: where each is in its call

vars == <<now, store, last, inp, out, table, tabs>>

(***************************************************************************)
(* Bounds of the model                                                     *)
(***************************************************************************)
Precision == 4      \* significant decimal digits a quotient keeps
MaxTicks == 3       \* clock ticks a behaviour may take
MaxLen == 4         \* longest text enumerated over ParseAlphabet
MaxEnvTicks == 1    \* clock ticks a behaviour of the hostile environment may take
MaxMs == 3          \* milliseconds that pass while one timestamp is re-examined
MaxRaceTicks == 1   \* clock ticks that pass while two callers race

(***************************************************************************)
(* JavaScript numbers                                                      *)
(***************************************************************************)
RECURSIVE Pow10(_)
Pow10(n) == IF n <= 0 THEN 1 ELSE 10 * Pow10(n - 1)

Abs(n) == IF n < 0 THEN -n ELSE n

Sign(n) == IF n < 0 THEN -1 ELSE 1

RECURSIVE Digits(_)
\* number of decimal digits of a natural number (0 has one)
Digits(n) == IF n < 10 THEN 1 ELSE 1 + Digits(n \div 10)

RECURSIVE Normalize(_, _)
\* m * 10^(-e) with the trailing zeros of the fraction dropped, e >= 0
Normalize(m, e) ==
    IF e < 0 THEN Normalize(m * Pow10(-e), 0)
    ELSE IF e > 0 /\ m % 10 = 0 THEN Normalize(m \div 10, e - 1)
    ELSE [k |-> "num", m |-> m, e |-> e]

Num(m, e) == Normalize(m, e)

Int2Num(n) == [k |-> "num", m |-> n, e |-> 0]

NaN == [k |-> "nan", m |-> 0, e |-> 0]

Infinity(sign) == [k |-> "inf", m |-> sign, e |-> 0]

\* m * 10^(-e) rounded to nearest at Precision significant digits
RoundSig(m, e) ==
    LET d == Digits(Abs(m)) - Precision
    IN  IF d <= 0 THEN Normalize(m, e)
        ELSE Normalize(Sign(m) * ((Abs(m) + Pow10(d) \div 2) \div Pow10(d)), e - d)

isNaN(a) == a.k = "nan"

IsZero(a) == a.k = "num" /\ a.m = 0

\* the sign of a number that is not NaN: -1, 0 or 1
SignOf(a) == IF a.m < 0 THEN -1 ELSE IF a.m > 0 THEN 1 ELSE 0

\* a < b on numbers (false when either is NaN, as every comparison in JavaScript)
Less(a, b) ==
    IF isNaN(a) \/ isNaN(b) THEN FALSE
    ELSE IF a.k = "inf" THEN a.m < 0 /\ ~(b.k = "inf" /\ b.m < 0)
    ELSE IF b.k = "inf" THEN b.m > 0
    ELSE LET ia == a.m \div Pow10(a.e)            \* floor(a)
             ib == b.m \div Pow10(b.e)            \* floor(b)
             s  == IF a.e > b.e THEN a.e ELSE b.e
             fa == (a.m % Pow10(a.e)) * Pow10(s - a.e)   \* fraction of a, scaled
             fb == (b.m % Pow10(b.e)) * Pow10(s - b.e)
         IN  ia < ib \/ (ia = ib /\ fa < fb)

Greater(a, b) == Less(b, a)

GreaterEq(a, b) == ~isNaN(a) /\ ~isNaN(b) /\ ~Less(a, b)

\* a * b
Mul(a, b) ==
    IF isNaN(a) \/ isNaN(b) THEN NaN
    ELSE IF a.k = "inf" \/ b.k = "inf"
         THEN IF IsZero(a) \/ IsZero(b) THEN NaN ELSE Infinity(SignOf(a) * SignOf(b))
    ELSE Normalize(a.m * b.m, a.e + b.e)

\* a / b
Div(a, b) ==
    IF isNaN(a) \/ isNaN(b) THEN NaN
    ELSE IF a.k = "inf" THEN (IF b.k = "inf" THEN NaN
                              ELSE Infinity(a.m * (IF b.m < 0 THEN -1 ELSE 1)))
    ELSE IF b.k = "inf" THEN Int2Num(0)
    ELSE IF b.m = 0 THEN (IF a.m = 0 THEN NaN ELSE Infinity(SignOf(a)))
    ELSE IF a.m = 0 THEN Int2Num(0)
    ELSE LET \* scale the dividend so the quotient has Precision digits or more
             sh == Digits(Abs(b.m)) + Precision - Digits(Abs(a.m))
             up == IF sh > 0 THEN sh ELSE 0
             n  == Abs(a.m) * Pow10(up)
             q  == n \div Abs(b.m)
             r  == n % Abs(b.m)
             d  == Digits(q) - Precision
             mm == IF d <= 0
                   THEN q + (IF 2 * r >= Abs(b.m) THEN 1 ELSE 0)
                   ELSE (q \div Pow10(d)) + (IF 2 * (q % Pow10(d)) >= Pow10(d) THEN 1 ELSE 0)
             ee == a.e + up - b.e - (IF d <= 0 THEN 0 ELSE d)
         IN  RoundSig(Sign(a.m) * Sign(b.m) * mm, ee)

\* a + b
Add(a, b) ==
    IF isNaN(a) \/ isNaN(b) THEN NaN
    ELSE IF a.k = "inf" THEN (IF b.k = "inf" /\ b.m # a.m THEN NaN ELSE a)
    ELSE IF b.k = "inf" THEN b
    ELSE LET s == IF a.e > b.e THEN a.e ELSE b.e
         IN  Normalize(a.m * Pow10(s - a.e) + b.m * Pow10(s - b.e), s)

Neg(a) == IF isNaN(a) THEN a ELSE [a EXCEPT !.m = -a.m]

Sub(a, b) == Add(a, Neg(b))

\* the value of a property that an object does not have
Undefined == [k |-> "undefined", m |-> 0, e |-> 0]

\* JavaScript truthiness of a number or undefined: 0, NaN and undefined are falsy
Truthy(a) == a.k \in {"num", "inf"} /\ ~IsZero(a)

(***************************************************************************)
(* The constants: currencies, display symbols, static rate table           *)
(***************************************************************************)
Currencies == {"ARS", "USD", "USDT", "COP", "MXN", "CLP", "PEN", "UYU", "BRL", "EUR", "GBP"}

\* a code outside the closed enumeration, as stored data may carry at run time
UnknownCodes == {"XXX"}

AnyCode == Currencies \cup UnknownCodes

\* the characters U+20AC, U+00A3 and U+221E, each one element of a text
EuroSign == "EURO SIGN"

PoundSign == "POUND SIGN"

InfinitySign == "INFINITY"

\* CURRENCIES[code].symbol
CURRENCIES ==
    [c \in Currencies |->
        CASE c = "USDT" -> <<"U", "S", "D", "T">>
          [] c = "PEN"  -> <<"S", "/">>
          [] c = "BRL"  -> <<"R", "$">>
          [] c = "EUR"  -> <<EuroSign>>
          [] c = "GBP"  -> <<PoundSign>>
          [] OTHER      -> <<"$">>]

\* USD_EXCHANGE_RATES: the value of one unit of the currency in USD
USD_EXCHANGE_RATES ==
    [c \in Currencies |->
        CASE c = "USD"  -> Num(1, 0)
          [] c = "USDT" -> Num(1, 0)
          [] c = "ARS"  -> Num(11, 4)
          [] c = "COP"  -> Num(25, 5)
          [] c = "MXN"  -> Num(59, 3)
          [] c = "CLP"  -> Num(11, 4)
          [] c = "PEN"  -> Num(27, 2)
          [] c = "UYU"  -> Num(26, 3)
          [] c = "BRL"  -> Num(20, 2)
          [] c = "EUR"  -> Num(110, 2)
          [] c = "GBP"  -> Num(127, 2)]

\* USD_EXCHANGE_RATES[code], read from the object at the time of the call: undefined
\* for a key the table does not have
RateOf(code) == IF code \in DOMAIN table THEN table[code] ELSE Undefined

(***************************************************************************)
(* Results of calls: a returned value or a thrown exception                *)
(***************************************************************************)
Return(v) == [st |-> "returned", val |-> v]

Throw(e) == [st |-> "threw", val |-> e]

Pending == [st |-> "pending", val |-> "none"]

(***************************************************************************)
(* Conversion                                                              *)
(***************************************************************************)
\* convertToUSD that takes the rate from the cached snapshot when there is one
convertToUSD_CachedRate(amount, fromCurrency) ==
    LET cached == store["tufinanza_exchange_rates"]
        rate == IF cached.kind = "object" /\ fromCurrency \in DOMAIN cached.rates
                THEN cached.rates[fromCurrency] ELSE RateOf(fromCurrency)
    IN  IF fromCurrency = "USD" THEN amount
        ELSE IF ~Truthy(rate) THEN amount
        ELSE Mul(amount, rate)

convertToUSD(amount, fromCurrency) ==
    IF fromCurrency = "USD" THEN amount
    ELSE LET rate == RateOf(fromCurrency)
         IN  IF ~Truthy(rate) THEN amount
             ELSE Mul(amount, rate)

convertFromUSD(usdAmount, toCurrency) ==
    IF toCurrency = "USD" THEN usdAmount
    ELSE LET rate == RateOf(toCurrency)
         IN  IF ~Truthy(rate) THEN usdAmount
             ELSE Div(usdAmount, rate)

\* convertCurrency without the same-currency shortcut
convertCurrency_AlwaysPivot(amount, fromCurrency, toCurrency) ==
    convertFromUSD(convertToUSD(amount, fromCurrency), toCurrency)

convertCurrency(amount, fromCurrency, toCurrency) ==
    IF fromCurrency = toCurrency THEN amount
    ELSE LET usdAmount == convertToUSD(amount, fromCurrency)
         IN  convertFromUSD(usdAmount, toCurrency)

convertARSToUSDT(arsAmount, usdtQuote) == Div(arsAmount, usdtQuote.price)

convertUSDTToARS(usdtAmount, usdtQuote) == Mul(usdtAmount, usdtQuote.price)

\* an optional argument that was not passed
NoQuote == [present |-> FALSE, price |-> Undefined]

Quote(price) == [present |-> TRUE, price |-> price]

\* convertToUSDT that ignores the quote it is given
convertToUSDT_IgnoresQuote(amount, fromCurrency, usdtQuote) ==
    IF fromCurrency \in {"USD", "USDT"} THEN amount ELSE convertToUSD(amount, fromCurrency)

convertToUSDT(amount, fromCurrency, usdtQuote) ==
    CASE fromCurrency = "ARS" ->
            IF usdtQuote.present THEN convertARSToUSDT(amount, usdtQuote)
            ELSE convertToUSD(amount, fromCurrency)
      [] fromCurrency \in {"USD", "USDT"} -> amount
      [] OTHER -> convertToUSD(amount, fromCurrency)

convertFromUSDT(usdtAmount, toCurrency, usdtQuote) ==
    CASE toCurrency = "ARS" ->
            IF usdtQuote.present THEN convertUSDTToARS(usdtAmount, usdtQuote)
            ELSE convertFromUSD(usdtAmount, toCurrency)
      [] toCurrency \in {"USD", "USDT"} -> usdtAmount
      [] OTHER -> convertFromUSD(usdtAmount, toCurrency)

\* a || 1
OrOne(a) == IF Truthy(a) THEN a ELSE Int2Num(1)

getExchangeRate(from, to) ==
    IF from = to THEN Int2Num(1)
    ELSE LET fromToUSD == OrOne(RateOf(from))
             usdToTarget == Div(Int2Num(1), OrOne(RateOf(to)))
         IN  Mul(fromToUSD, usdToTarget)

(***************************************************************************)
(* Validation                                                              *)
(***************************************************************************)
MAX_AMOUNT == 999999999

\* validateAmount with >= where the code has >
validateAmount_MaxExcluded(amount) ==
    IF isNaN(amount) \/ Less(amount, Int2Num(0))
    THEN [isValid |-> FALSE, error |-> "El monto debe ser un numero positivo"]
    ELSE IF amount = Int2Num(0)
    THEN [isValid |-> FALSE, error |-> "El monto debe ser mayor a cero"]
    ELSE IF GreaterEq(amount, Int2Num(MAX_AMOUNT))
    THEN [isValid |-> FALSE, error |-> "El monto es demasiado grande"]
    ELSE [isValid |-> TRUE, error |-> "undefined"]

validateAmount(amount) ==
    IF isNaN(amount) \/ Less(amount, Int2Num(0))
    THEN [isValid |-> FALSE, error |-> "El monto debe ser un numero positivo"]
    ELSE IF amount = Int2Num(0)
    THEN [isValid |-> FALSE, error |-> "El monto debe ser mayor a cero"]
    ELSE IF Greater(amount, Int2Num(MAX_AMOUNT))
    THEN [isValid |-> FALSE, error |-> "El monto es demasiado grande"]
    ELSE [isValid |-> TRUE, error |-> "undefined"]

(***************************************************************************)
(* Texts                                                                   *)
(***************************************************************************)
DigitChars == <<"0", "1", "2", "3", "4", "5", "6", "7", "8", "9">>

IsDigit(c) == \E i \in 1..10 : DigitChars[i] = c

DigitVal(c) == (CHOOSE i \in 1..10 : DigitChars[i] = c) - 1

RECURSIVE DigitsOf(_)
\* the decimal digits of a natural number
DigitsOf(n) == IF n < 10 THEN <<DigitChars[n + 1]>>
               ELSE DigitsOf(n \div 10) \o <<DigitChars[(n % 10) + 1]>>

RECURSIVE PadLeft(_, _)
PadLeft(ds, w) == IF Len(ds) >= w THEN ds ELSE PadLeft(<<"0">> \o ds, w)

RECURSIVE Filter(_, _)
\* s without the characters of the set drop
Filter(s, drop) ==
    IF s = <<>> THEN <<>>
    ELSE (IF Head(s) \in drop THEN <<>> ELSE <<Head(s)>>) \o Filter(Tail(s), drop)

RECURSIVE LastIndexOfFrom(_, _, _)
LastIndexOfFrom(s, c, i) ==
    IF i = 0 THEN -1
    ELSE IF s[i] = c THEN i - 1
    ELSE LastIndexOfFrom(s, c, i - 1)

\* String.prototype.lastIndexOf: the 0-based index of the last c in s, or -1
LastIndexOf(s, c) == LastIndexOfFrom(s, c, Len(s))

RECURSIVE ReplaceFirst(_, _, _)
\* String.prototype.replace with a string pattern: the first c becomes d
ReplaceFirst(s, c, d) ==
    IF s = <<>> THEN <<>>
    ELSE IF Head(s) = c THEN <<d>> \o Tail(s)
    ELSE <<Head(s)>> \o ReplaceFirst(Tail(s), c, d)

\* String.prototype.slice(from, to) on 0-based indices
Slice(s, from, to) == SubSeq(s, from + 1, to)

RECURSIVE DigitRun(_)
\* the longest prefix of s made of digits
DigitRun(s) ==
    IF s = <<>> \/ ~IsDigit(Head(s)) THEN <<>>
    ELSE <<Head(s)>> \o DigitRun(Tail(s))

RECURSIVE DigitsValue(_, _)
DigitsValue(ds, acc) ==
    IF ds = <<>> THEN acc ELSE DigitsValue(Tail(ds), 10 * acc + DigitVal(Head(ds)))

Whitespace == {" ", "NO-BREAK SPACE"}

RECURSIVE TrimLeft(_)
TrimLeft(s) == IF s # <<>> /\ Head(s) \in Whitespace THEN TrimLeft(Tail(s)) ELSE s

\* parseFloat: the value of the longest prefix that reads as a decimal literal
\* (sign, digits, point, digits), NaN when there is none.  The texts of the model
\* hold no exponent part and do not spell Infinity.
parseFloat(text) ==
    LET s    == TrimLeft(text)
        neg  == s # <<>> /\ Head(s) = "-"
        body == IF s # <<>> /\ Head(s) \in {"-", "+"} THEN Tail(s) ELSE s
        ip   == DigitRun(body)
        rest == SubSeq(body, Len(ip) + 1, Len(body))
        fp   == IF rest # <<>> /\ Head(rest) = "." THEN DigitRun(Tail(rest)) ELSE <<>>
        m    == DigitsValue(ip \o fp, 0)
    IN  IF ip = <<>> /\ fp = <<>> THEN NaN
        ELSE Normalize(IF neg THEN -m ELSE m, Len(fp))

(***************************************************************************)
(* Parsing user input                                                      *)
(***************************************************************************)
\* the characters the regular expression /[$ euro pound S \/ R \s]/g removes
SymbolChars == {"$", EuroSign, PoundSign, "S", "/", "R"} \cup Whitespace

parseNumber(input) ==
    LET cleaned0 == Filter(input, SymbolChars)
        lastDotIndex == LastIndexOf(cleaned0, ".")
        lastCommaIndex == LastIndexOf(cleaned0, ",")
        cleaned ==
            IF lastCommaIndex > lastDotIndex
            THEN ReplaceFirst(Filter(cleaned0, {"."}), ",", ".")
            ELSE IF lastDotIndex # -1
            THEN LET afterDot == Slice(cleaned0, lastDotIndex + 1, Len(cleaned0))
                 IN  IF Len(afterDot) <= 2
                     THEN LET beforeDot == Filter(Slice(cleaned0, 0, lastDotIndex), {"."})
                          IN  beforeDot \o <<".">> \o afterDot
                     ELSE Filter(cleaned0, {"."})
            ELSE cleaned0
        num == parseFloat(cleaned)
    IN  IF isNaN(num) THEN Int2Num(0) ELSE num

(***************************************************************************)
(* Formatting                                                              *)
(***************************************************************************)
\* localeMap[currency] || 'en-US'
getLocaleForCurrency(currency) ==
    CASE currency = "ARS"  -> "es-AR"
      [] currency = "USD"  -> "en-US"
      [] currency = "USDT" -> "en-US"
      [] currency = "COP"  -> "es-CO"
      [] currency = "MXN"  -> "es-MX"
      [] currency = "CLP"  -> "es-CL"
      [] currency = "PEN"  -> "es-PE"
      [] currency = "UYU"  -> "es-UY"
      [] currency = "BRL"  -> "pt-BR"
      [] currency = "EUR"  -> "es-ES"
      [] currency = "GBP"  -> "en-GB"
      [] OTHER             -> "en-US"

\* the number symbols of a locale: grouping separator, decimal separator and the
\* least number of digits before the first separator for grouping to apply
LocaleSymbols(locale) ==
    CASE locale \in {"en-US", "en-GB", "es-MX", "es-PE"}
            -> [group |-> ",", decimal |-> ".", minGrouping |-> 1]
      [] locale = "es-ES"
            -> [group |-> ".", decimal |-> ",", minGrouping |-> 2]
      [] OTHER
            -> [group |-> ".", decimal |-> ",", minGrouping |-> 1]

RECURSIVE GroupDigits(_, _)
\* the digits ds in groups of three from the right
GroupDigits(ds, sep) ==
    IF Len(ds) <= 3 THEN ds
    ELSE GroupDigits(SubSeq(ds, 1, Len(ds) - 3), sep) \o <<sep>> \o SubSeq(ds, Len(ds) - 2, Len(ds))

\* |a| * 10^fd rounded half away from zero to an integer
ScaledRound(a, fd) ==
    IF a.e <= fd THEN Abs(a.m) * Pow10(fd - a.e)
    ELSE (Abs(a.m) + Pow10(a.e - fd) \div 2) \div Pow10(a.e - fd)

\* new Intl.NumberFormat(locale, {minimumFractionDigits: fd,
\* maximumFractionDigits: fd}).format(amount)
NumberFormat(locale, fd, amount) ==
    IF isNaN(amount) THEN <<"N", "a", "N">>
    ELSE IF amount.k = "inf"
    THEN (IF amount.m < 0 THEN <<"-">> ELSE <<>>) \o <<InfinitySign>>
    ELSE LET sym    == LocaleSymbols(locale)
             scaled == ScaledRound(amount, fd)
             ip     == DigitsOf(scaled \div Pow10(fd))
             grouped == IF Len(ip) >= 3 + sym.minGrouping
                        THEN GroupDigits(ip, sym.group) ELSE ip
             frac   == IF fd = 0 THEN <<>>
                       ELSE <<sym.decimal>> \o PadLeft(DigitsOf(scaled % Pow10(fd)), fd)
         IN  (IF amount.m < 0 THEN <<"-">> ELSE <<>>) \o grouped \o frac

\* an option that was not passed
NotGiven == "undefined"

formatCurrency(amount, currency, showDecimalsOpt, showSymbolOpt, localeOpt) ==
    LET showDecimals == IF showDecimalsOpt = NotGiven THEN "true" ELSE showDecimalsOpt
        showSymbol == IF showSymbolOpt = NotGiven THEN "true" ELSE showSymbolOpt
        locale == IF localeOpt = NotGiven THEN getLocaleForCurrency(currency) ELSE localeOpt
        known == currency \in DOMAIN CURRENCIES      \* currencyInfo is not undefined
        formatted == NumberFormat(locale, IF showDecimals = "true" THEN 2 ELSE 0, amount)
    IN  IF showSymbol = "true"
        THEN IF known THEN Return(CURRENCIES[currency] \o <<" ">> \o formatted)
             ELSE Throw("TypeError")             \* currencyInfo.symbol of undefined
        ELSE Return(formatted)

formatBalance(amount, currency) == formatCurrency(amount, currency, "false", "true", NotGiven)

formatMovementAmount(amount, currency) == formatCurrency(amount, currency, "true", "true", NotGiven)

\* CURRENCIES[code]?.symbol || code
SymbolOrCode(code) == IF code \in DOMAIN CURRENCIES THEN CURRENCIES[code] ELSE <<code>>

\* Number.prototype.toFixed(2)
toFixed2(a) ==
    IF isNaN(a) THEN <<"N", "a", "N">>
    ELSE IF a.k = "inf" THEN (IF a.m < 0 THEN <<"-">> ELSE <<>>) \o <<"Infinity">>
    ELSE LET scaled == ScaledRound(a, 2)
         IN  (IF a.m < 0 THEN <<"-">> ELSE <<>>) \o DigitsOf(scaled \div 100)
                 \o <<".">> \o PadLeft(DigitsOf(scaled % 100), 2)

formatExchangeRate(from, to) ==
    LET rate == getExchangeRate(from, to)
        fromSymbol == SymbolOrCode(from)
        toSymbol == SymbolOrCode(to)
    IN  IF GreaterEq(rate, Int2Num(1))
        THEN <<"1", " ">> \o fromSymbol \o <<" ", "=", " ">> \o toFixed2(rate) \o <<" ">> \o toSymbol
        ELSE LET inverseRate == Div(Int2Num(1), rate)
             IN  toFixed2(inverseRate) \o <<" ">> \o fromSymbol \o <<" ", "=", " ", "1", " ">> \o toSymbol

(***************************************************************************)
(* Dates and the JSON texts of the store                                   *)
(***************************************************************************)
\* QUOTE_CACHE_DURATION, one hour in milliseconds
QUOTE_CACHE_DURATION == 60 * 60 * 1000

\* USDT_PRICE_RANGE.base
USDT_PRICE_BASE == 1200

USDT_QUOTE_KEY == "tufinanza_usdt_quote"

EXCHANGE_RATES_KEY == "tufinanza_exchange_rates"

CacheKeys == {USDT_QUOTE_KEY, EXCHANGE_RATES_KEY}

\* a Date holding the time ms, the Invalid Date, and null where a Date may stand
DateOf(ms) == [null |-> FALSE, valid |-> TRUE, ms |-> ms]

InvalidDate == [null |-> FALSE, valid |-> FALSE, ms |-> 0]

NullDate == [null |-> TRUE, valid |-> FALSE, ms |-> 0]

\* the JSON value found under "timestamp": an ISO date string, nothing, a string
\* that is no date, or null
JIso(ms) == [t |-> "iso", ms |-> ms]

JMissing == [t |-> "missing", ms |-> 0]

JNotADate == [t |-> "text", ms |-> 0]

JNull == [t |-> "null", ms |-> 0]

\* new Date(value) on a value read from JSON
NewDate(j) ==
    CASE j.t = "iso"  -> DateOf(j.ms)
      [] j.t = "null" -> DateOf(0)
      [] OTHER        -> InvalidDate

\* Date.prototype.toJSON, as JSON.stringify applies it
DateToJSON(d) == IF d.valid THEN JIso(d.ms) ELSE JNull

\* what localStorage.getItem gives: null for a missing key, else the text
AbsentText == [kind |-> "absent"]

EmptyText == [kind |-> "empty"]           \* the empty string

InvalidJSONText == [kind |-> "invalid"]   \* a text JSON.parse rejects

NullJSONText == [kind |-> "null"]         \* the text null

\* JSON.stringify of a quote and of a rates snapshot
StringifyQuote(q) ==
    [kind |-> "object", price |-> q.price, timestamp |-> DateToJSON(q.timestamp),
     source |-> q.source]

StringifyRates(x) ==
    [kind |-> "object", base |-> x.base, rates |-> x.rates,
     timestamp |-> DateToJSON(x.timestamp), source |-> x.source]

\* null where an object may stand
NullObject == [null |-> TRUE]

(***************************************************************************)
(* Quote and rate generation                                               *)
(***************************************************************************)
\* Math.round: the nearest integer, halves up
MathRound(a) == (2 * a.m + Pow10(a.e)) \div (2 * Pow10(a.e))

\* Math.round(x * 100) / 100
RoundToCents(x) == Normalize(MathRound(Mul(x, Int2Num(100))), 2)

\* generateUSDTQuote with the fluctuation not centred: Math.random() * 40
generateUSDTQuote_NotCentred(t, r) ==
    LET fluctuation == Mul(r, Int2Num(40))
        price == RoundToCents(Add(Int2Num(USDT_PRICE_BASE), fluctuation))
    IN  [null |-> FALSE, price |-> price, timestamp |-> DateOf(t), source |-> "simulation"]

\* r is the value Math.random() returns
generateUSDTQuote(t, r) ==
    LET fluctuation == Mul(Sub(r, Num(5, 1)), Int2Num(40))
        price == RoundToCents(Add(Int2Num(USDT_PRICE_BASE), fluctuation))
    IN  [null |-> FALSE, price |-> price, timestamp |-> DateOf(t), source |-> "simulation"]

\* const rates = USD_EXCHANGE_RATES: the same object, no copy
SpreadCopy_SameObject(tbl) == [entries |-> tbl, isTable |-> TRUE]

\* const rates = { ...USD_EXCHANGE_RATES }: a new object with the entries of the table
SpreadCopy(tbl) == [entries |-> tbl, isTable |-> FALSE]

\* The forEach over the keys of rates: every key but USD is assigned its base rate
\* with the jitter; rs[c] is the value Math.random() returns for currency c.  Each
\* key is read from the table before it is assigned, so the rates are the same
\* whether or not rates is the table; the table is left as the assignments leave it.
JitterRates(tbl, rs) ==
    LET rates == SpreadCopy(tbl)
        assigned == [c \in DOMAIN rates.entries |->
                        IF c # "USD"
                        THEN LET baseRate == tbl[c]
                                 fluctuation == Mul(Sub(rs[c], Num(5, 1)), Num(2, 2))
                             IN  Mul(baseRate, Add(Int2Num(1), fluctuation))
                        ELSE rates.entries[c]]
    IN  [rates |-> assigned, table |-> IF rates.isTable THEN assigned ELSE tbl]

generateExchangeRates(t, rs) ==
    [null |-> FALSE, base |-> "USD", rates |-> JitterRates(table, rs).rates,
     timestamp |-> DateOf(t), source |-> "simulation"]

(***************************************************************************)
(* The cache                                                               *)
(***************************************************************************)
\* shouldUpdateQuotes with > where the code has >=
shouldUpdateQuotes_Strict(lastUpdate, t) ==
    IF lastUpdate.null THEN TRUE
    ELSE lastUpdate.valid /\ t - lastUpdate.ms > QUOTE_CACHE_DURATION

shouldUpdateQuotes(lastUpdate, t) ==
    IF lastUpdate.null THEN TRUE
    ELSE LET \* now.getTime() - lastUpdate.getTime(): NaN for the Invalid Date
             timeDiff == IF lastUpdate.valid
                         THEN [nan |-> FALSE, v |-> t - lastUpdate.ms]
                         ELSE [nan |-> TRUE, v |-> 0]
         IN  ~timeDiff.nan /\ timeDiff.v >= QUOTE_CACHE_DURATION

\* try { ... } catch (error) { return null }
CatchReturnNull(body) == IF body.st = "threw" THEN Return(NullObject) ELSE body

\* localStorage.getItem(key), JSON.parse and data.timestamp: the parsed object,
\* null for a missing key or an empty text, or the exception
ReadAndParse(st, key, readThrows) ==
    IF readThrows THEN Throw("SecurityError")
    ELSE LET cached == st[key]
         IN  IF cached.kind \in {"absent", "empty"} THEN Return(NullObject)
             ELSE IF cached.kind = "invalid" THEN Throw("SyntaxError")
             ELSE IF cached.kind = "null" THEN Throw("TypeError")
             ELSE Return(cached)

\* getCachedUSDTQuote without the expiry check
getCachedUSDTQuote_NoExpiry(st, t, readThrows) ==
    LET data == ReadAndParse(st, USDT_QUOTE_KEY, readThrows)
        body == IF data.st = "threw" \/ data.val = NullObject THEN data
                ELSE Return([null |-> FALSE, price |-> data.val.price,
                             timestamp |-> NewDate(data.val.timestamp),
                             source |-> data.val.source])
    IN  CatchReturnNull(body)

getCachedUSDTQuote(st, t, readThrows) ==
    LET data == ReadAndParse(st, USDT_QUOTE_KEY, readThrows)
        body == IF data.st = "threw" \/ data.val = NullObject THEN data
                ELSE LET quote == [null |-> FALSE, price |-> data.val.price,
                                   timestamp |-> NewDate(data.val.timestamp),
                                   source |-> data.val.source]
                     IN  IF shouldUpdateQuotes(quote.timestamp, t)
                         THEN Return(NullObject)
                         ELSE Return(quote)
    IN  CatchReturnNull(body)

getCachedExchangeRates(st, t, readThrows) ==
    LET data == ReadAndParse(st, EXCHANGE_RATES_KEY, readThrows)
        body == IF data.st = "threw" \/ data.val = NullObject THEN data
                ELSE LET rates == [null |-> FALSE, base |-> data.val.base,
                                   rates |-> data.val.rates,
                                   timestamp |-> NewDate(data.val.timestamp),
                                   source |-> data.val.source]
                     IN  IF shouldUpdateQuotes(rates.timestamp, t)
                         THEN Return(NullObject)
                         ELSE Return(rates)
    IN  CatchReturnNull(body)

\* try { ... } catch (error) { console.error(...) }
CatchAndLog(body) == IF body.res.st = "threw" THEN [body EXCEPT !.res = Return("undefined")] ELSE body

\* localStorage.setItem(key, text): the store after it, the outcome, the calls made
SetItem(st, key, text, writeThrows) ==
    IF writeThrows
    THEN [store |-> st, res |-> Throw("QuotaExceededError"), setItemCalls |-> 1]
    ELSE [store |-> [st EXCEPT ![key] = text], res |-> Return("undefined"), setItemCalls |-> 1]

\* saveUSDTQuoteToCache that writes only where the key holds nothing yet
saveUSDTQuoteToCache_IfAbsent(st, quote, writeThrows) ==
    IF st[USDT_QUOTE_KEY] = AbsentText
    THEN CatchAndLog(SetItem(st, USDT_QUOTE_KEY, StringifyQuote(quote), writeThrows))
    ELSE [store |-> st, res |-> Return("undefined"), setItemCalls |-> 0]

\* saveUSDTQuoteToCache without its try/catch
saveUSDTQuoteToCache_NoCatch(st, quote, writeThrows) ==
    SetItem(st, USDT_QUOTE_KEY, StringifyQuote(quote), writeThrows)

saveUSDTQuoteToCache(st, quote, writeThrows) ==
    CatchAndLog(SetItem(st, USDT_QUOTE_KEY, StringifyQuote(quote), writeThrows))

saveExchangeRatesToCache(st, rates, writeThrows) ==
    CatchAndLog(SetItem(st, EXCHANGE_RATES_KEY, StringifyRates(rates), writeThrows))

\* The outcome of a call: the store after it, what it returned or threw, how often
\* it called setItem, whether it generated a value and whether setItem threw.
Outcome(st, res, calls, generated, writeThrew) ==
    [store |-> st, res |-> res, setItemCalls |-> calls, generated |-> generated,
     writeThrew |-> writeThrew]

getCurrentUSDTQuote(st, t, r, readThrows, writeThrows) ==
    LET cached == getCachedUSDTQuote(st, t, readThrows)
    IN  IF cached.st = "threw" THEN Outcome(st, cached, 0, FALSE, FALSE)
        ELSE IF cached.val # NullObject THEN Outcome(st, cached, 0, FALSE, FALSE)
        ELSE LET newQuote == generateUSDTQuote(t, r)
                 saved == saveUSDTQuoteToCache(st, newQuote, writeThrows)
             IN  IF saved.res.st = "threw"
                 THEN Outcome(saved.store, saved.res, saved.setItemCalls, TRUE, writeThrows)
                 ELSE Outcome(saved.store, Return(newQuote), saved.setItemCalls, TRUE, writeThrows)

getCurrentExchangeRates(st, t, rs, readThrows, writeThrows) ==
    LET cached == getCachedExchangeRates(st, t, readThrows)
    IN  IF cached.st = "threw" THEN Outcome(st, cached, 0, FALSE, FALSE)
        ELSE IF cached.val # NullObject THEN Outcome(st, cached, 0, FALSE, FALSE)
        ELSE LET newRates == generateExchangeRates(t, rs)
                 saved == saveExchangeRatesToCache(st, newRates, writeThrows)
             IN  IF saved.res.st = "threw"
                 THEN Outcome(saved.store, saved.res, saved.setItemCalls, TRUE, writeThrows)
                 ELSE Outcome(saved.store, Return(newRates), saved.setItemCalls, TRUE, writeThrows)

(***************************************************************************)
(* DatabaseManager: the writers of the two cache keys                      *)
(***************************************************************************)
\* setToStorage in a browser (window is defined): the store after it, whether it
\* returned true
setToStorage(st, key, text, writeThrows) ==
    LET w == SetItem(st, key, text, writeThrows)
    IN  [store |-> w.store, res |-> Return(w.res.st # "threw"), setItemCalls |-> w.setItemCalls]

saveUSDTQuote(st, quote, writeThrows) ==
    setToStorage(st, USDT_QUOTE_KEY, StringifyQuote(quote), writeThrows)

saveExchangeRates(st, rates, writeThrows) ==
    setToStorage(st, EXCHANGE_RATES_KEY, StringifyRates(rates), writeThrows)

(***************************************************************************)
(* DatabaseManager: the lists, the profile and the resets.  A movement, a  *)
(* saving goal and a saving transaction are records with an id, an amount  *)
(* and the date createdAt; a stored list is the JSON array of its items.   *)
(***************************************************************************)
STORAGE_KEYS ==
    [USER_PROFILE |-> "tufinanza_user_profile",
     MOVEMENTS |-> "tufinanza_movements",
     SAVING_GOALS |-> "tufinanza_saving_goals",
     SAVING_TRANSACTIONS |-> "tufinanza_saving_transactions",
     USDT_QUOTE |-> "tufinanza_usdt_quote",
     EXCHANGE_RATES |-> "tufinanza_exchange_rates",
     ONBOARDING |-> "tufinanza_onboarding",
     APP_STATE |-> "tufinanza_app_state",
     BALANCE_DISPLAY_CURRENCY |-> "tufinanza_balance_display_currency"]

\* Object.values(STORAGE_KEYS)
StorageKeys == {STORAGE_KEYS[f] : f \in DOMAIN STORAGE_KEYS}

\* JSON.stringify of a list of items, and of a profile
StringifyItems(items) ==
    [kind |-> "array",
     items |-> [i \in 1..Len(items) |-> [items[i] EXCEPT !.createdAt = DateToJSON(@)]]]

StringifyProfile(profile) ==
    [kind |-> "object", name |-> profile.name,
     createdAt |-> IF "valid" \in DOMAIN profile.createdAt THEN DateToJSON(profile.createdAt)
                   ELSE profile.createdAt]

\* getFromStorage in a browser: null for a missing key or an empty text, null where
\* safeJSONParse catches what JSON.parse or the date fields throw, else the parsed
\* value
getFromStorage(st, key) ==
    LET data == st[key]
    IN  IF data.kind \in {"absent", "empty", "invalid", "null"} THEN NullObject ELSE data

\* items.map(item => ({ ...item, createdAt: new Date(item.createdAt) })), [] for null
ReviveItems(data) ==
    IF data = NullObject THEN <<>>
    ELSE [i \in 1..Len(data.items) |-> [data.items[i] EXCEPT !.createdAt = NewDate(@)]]

\* a call that returned without writing
NoWrite(st, value) == [store |-> st, res |-> Return(value), setItemCalls |-> 0]

getUserProfile(st) ==
    LET data == getFromStorage(st, STORAGE_KEYS.USER_PROFILE)
    IN  IF data = NullObject THEN NullObject
        ELSE [null |-> FALSE, name |-> data.name,
              createdAt |-> IF data.createdAt.t \in {"missing", "null"} THEN data.createdAt
                            ELSE NewDate(data.createdAt)]

saveUserProfile(st, profile, writeThrows) ==
    setToStorage(st, STORAGE_KEYS.USER_PROFILE, StringifyProfile(profile), writeThrows)

\* updates is { name }
updateUserProfile(st, updates, writeThrows) ==
    LET current == getUserProfile(st)
    IN  IF current = NullObject THEN NoWrite(st, FALSE)
        ELSE saveUserProfile(st, [current EXCEPT !.name = updates.name], writeThrows)

\* JSON.stringify of a boolean and of a string
StringifyBoolean(b) == [kind |-> "boolean", val |-> b]

StringifyString(str) == [kind |-> "string", val |-> str]

setBalanceDisplayCurrency(st, currency, writeThrows) ==
    setToStorage(st, STORAGE_KEYS.BALANCE_DISPLAY_CURRENCY, StringifyString(currency),
                 writeThrows)

setOnboardingStatus(st, completed, writeThrows) ==
    setToStorage(st, STORAGE_KEYS.ONBOARDING, StringifyBoolean(completed), writeThrows)

getMovements(st) == ReviveItems(getFromStorage(st, STORAGE_KEYS.MOVEMENTS))

saveMovements(st, movements, writeThrows) ==
    setToStorage(st, STORAGE_KEYS.MOVEMENTS, StringifyItems(movements), writeThrows)

\* Array.prototype.unshift in the place of push
Push_AtFront(list, item) == <<item>> \o list

\* Array.prototype.push
Push(list, item) == Append(list, item)

addMovement(st, movement, writeThrows) ==
    saveMovements(st, Push(getMovements(st), movement), writeThrows)

\* list.findIndex(x => x.id === id): the 0-based index of the first, or -1
FindIndex(list, id) ==
    IF \E i \in 1..Len(list) : list[i].id = id
    THEN (CHOOSE i \in 1..Len(list) :
             list[i].id = id /\ \A j \in 1..(i - 1) : list[j].id # id) - 1
    ELSE -1

\* list.filter(x => x.id !== id)
FilterOut(list, id) == SelectSeq(list, LAMBDA x : x.id # id)

\* updateMovement that assigns to every element with the id
updateMovement_AllWithId(st, updatedMovement, writeThrows) ==
    LET movements == getMovements(st)
    IN  IF FindIndex(movements, updatedMovement.id) = -1 THEN NoWrite(st, FALSE)
        ELSE saveMovements(st, [i \in 1..Len(movements) |->
                                   IF movements[i].id = updatedMovement.id
                                   THEN updatedMovement ELSE movements[i]], writeThrows)

updateMovement(st, updatedMovement, writeThrows) ==
    LET movements == getMovements(st)
        index == FindIndex(movements, updatedMovement.id)
    IN  IF index = -1 THEN NoWrite(st, FALSE)
        ELSE saveMovements(st, [movements EXCEPT ![index + 1] = updatedMovement], writeThrows)

deleteMovement(st, movementId, writeThrows) ==
    saveMovements(st, FilterOut(getMovements(st), movementId), writeThrows)

getSavingGoals(st) == ReviveItems(getFromStorage(st, STORAGE_KEYS.SAVING_GOALS))

saveSavingGoals(st, goals, writeThrows) ==
    setToStorage(st, STORAGE_KEYS.SAVING_GOALS, StringifyItems(goals), writeThrows)

addSavingGoal(st, goal, writeThrows) ==
    saveSavingGoals(st, Push(getSavingGoals(st), goal), writeThrows)

updateSavingGoal(st, updatedGoal, writeThrows) ==
    LET goals == getSavingGoals(st)
        index == FindIndex(goals, updatedGoal.id)
    IN  IF index = -1 THEN NoWrite(st, FALSE)
        ELSE saveSavingGoals(st, [goals EXCEPT ![index + 1] = updatedGoal], writeThrows)

deleteSavingGoal(st, goalId, writeThrows) ==
    saveSavingGoals(st, FilterOut(getSavingGoals(st), goalId), writeThrows)

getSavingTransactions(st) ==
    ReviveItems(getFromStorage(st, STORAGE_KEYS.SAVING_TRANSACTIONS))

saveSavingTransactions(st, transactions, writeThrows) ==
    setToStorage(st, STORAGE_KEYS.SAVING_TRANSACTIONS, StringifyItems(transactions),
                 writeThrows)

addSavingTransaction(st, transaction, writeThrows) ==
    saveSavingTransactions(st, Push(getSavingTransactions(st), transaction), writeThrows)

\* localStorage.removeItem(key) for each of the keys
RemoveItems(st, keys) == [k \in DOMAIN st |-> IF k \in keys THEN AbsentText ELSE st[k]]

resetAllData(st) ==
    [store |-> RemoveItems(st, StorageKeys), res |-> Return(TRUE), setItemCalls |-> 0]

\* resetFinancialData that removes every key, as resetAllData does
resetFinancialData_EveryKey(st) ==
    [store |-> RemoveItems(st, StorageKeys), res |-> Return(TRUE), setItemCalls |-> 0]

resetFinancialData(st) ==
    [store |-> RemoveItems(st, {STORAGE_KEYS.MOVEMENTS, STORAGE_KEYS.SAVING_GOALS,
                                STORAGE_KEYS.SAVING_TRANSACTIONS, STORAGE_KEYS.USDT_QUOTE,
                                STORAGE_KEYS.EXCHANGE_RATES}),
     res |-> Return(TRUE), setItemCalls |-> 0]

(***************************************************************************)
(* The cache as a state machine: one caller, a clock and a store           *)
(***************************************************************************)
\* the clock starts at some instant more than a cache duration after the epoch
\* and advances in steps of half a cache duration
StartTime == 2 * QUOTE_CACHE_DURATION

TickMs == QUOTE_CACHE_DURATION \div 2

\* the values Math.random() returns in the model, all in [0, 1)
RandomValues == {Num(0, 0), Num(5, 1), Num(999, 3), Num(9999, 4)}

NonUSD == Currencies \ {"USD"}

\* the runs of Math.random() values one rate generation draws
RandomRuns ==
    {[c \in NonUSD |-> Num(0, 0)],
     [c \in NonUSD |-> IF c \in {"ARS", "EUR", "COP", "UYU"} THEN Num(999, 3) ELSE Num(25, 2)]}

\* the quotes and snapshots a caller hands to saveUSDTQuote and saveExchangeRates:
\* taken from a feed, stamped a millisecond less than an hour ago, or an hour ago
FeedStamps(t) == {t - (QUOTE_CACHE_DURATION - 1), t - QUOTE_CACHE_DURATION}

FeedQuotes(t) ==
    {[null |-> FALSE, price |-> Num(11955, 1), timestamp |-> DateOf(ts), source |-> "binance"] :
        ts \in FeedStamps(t)}

FeedRates(t) ==
    {[null |-> FALSE, base |-> "USD", rates |-> USD_EXCHANGE_RATES, timestamp |-> DateOf(ts),
      source |-> "api"] : ts \in FeedStamps(t)}

NoCall == [op |-> "none", key |-> "none", at |-> 0, before |-> AbsentText, othersSame |-> TRUE,
           res |-> Pending, setItemCalls |-> 0, generated |-> FALSE,
           readThrew |-> FALSE, writeThrew |-> FALSE]

\* what a call on the store leaves in last
Called(op, key, c, readThrows) ==
    [op |-> op, key |-> key, at |-> now, before |-> store[key],
     othersSame |-> \A k \in DOMAIN store \ {key} : c.store[k] = store[k],
     res |-> c.res, setItemCalls |-> c.setItemCalls, generated |-> c.generated,
     readThrew |-> readThrows, writeThrew |-> c.writeThrew]

NoInput == [op |-> "none"]

\* the callers that share the store, and a caller that is in no call
Tabs == {1, 2}

Idle == [pc |-> "idle"]

Init ==
    /\ now = StartTime
    /\ store = [k \in CacheKeys |-> AbsentText]
    /\ last = NoCall
    /\ inp = NoInput
    /\ out = Pending
    /\ table = USD_EXCHANGE_RATES
    /\ tabs = [t \in Tabs |-> Idle]

TickUpTo(n) ==
    /\ now < StartTime + n * TickMs
    /\ now' = now + TickMs
    /\ UNCHANGED <<store, last, inp, out, table, tabs>>

Tick == TickUpTo(MaxTicks)

CallGetCurrentUSDTQuote(readFaults) ==
    \E r \in RandomValues, readThrows \in readFaults, writeThrows \in BOOLEAN :
        LET c == getCurrentUSDTQuote(store, now, r, readThrows, writeThrows)
        IN  /\ store' = c.store
            /\ last' = Called("getCurrentUSDTQuote", USDT_QUOTE_KEY, c, readThrows)
            /\ UNCHANGED <<now, inp, out, table, tabs>>

CallGetCurrentExchangeRates(readFaults) ==
    \E rs \in RandomRuns, readThrows \in readFaults, writeThrows \in BOOLEAN :
        LET c == getCurrentExchangeRates(store, now, rs, readThrows, writeThrows)
        IN  /\ store' = c.store
            /\ last' = Called("getCurrentExchangeRates", EXCHANGE_RATES_KEY, c, readThrows)
            /\ table' = (IF c.generated THEN JitterRates(table, rs).table ELSE table)
            /\ UNCHANGED <<now, inp, out, tabs>>

GetCurrentUSDTQuote == CallGetCurrentUSDTQuote({FALSE})

GetCurrentExchangeRates == CallGetCurrentExchangeRates({FALSE})

SaveUSDTQuote ==
    \E q \in FeedQuotes(now), writeThrows \in BOOLEAN :
        LET w == saveUSDTQuote(store, q, writeThrows)
            c == Outcome(w.store, w.res, w.setItemCalls, FALSE, writeThrows)
        IN  /\ store' = c.store
            /\ last' = Called("saveUSDTQuote", USDT_QUOTE_KEY, c, FALSE)
            /\ UNCHANGED <<now, inp, out, table, tabs>>

SaveExchangeRates ==
    \E x \in FeedRates(now), writeThrows \in BOOLEAN :
        LET w == saveExchangeRates(store, x, writeThrows)
            c == Outcome(w.store, w.res, w.setItemCalls, FALSE, writeThrows)
        IN  /\ store' = c.store
            /\ last' = Called("saveExchangeRates", EXCHANGE_RATES_KEY, c, FALSE)
            /\ UNCHANGED <<now, inp, out, table, tabs>>

Next ==
    \/ Tick
    \/ GetCurrentUSDTQuote
    \/ GetCurrentExchangeRates
    \/ SaveUSDTQuote
    \/ SaveExchangeRates

Spec == Init /\ [][Next]_vars

(***************************************************************************)
(* The cache in a hostile environment: the store is shared with whatever   *)
(* else runs on the origin (another version of the application, an         *)
(* extension, the user), so any text may be found under a key, and reading *)
(* may throw (storage access denied)                                       *)
(***************************************************************************)
ForeignTimestamps == {JMissing, JNotADate, JNull}

ForeignTexts(key) ==
    {EmptyText, InvalidJSONText, NullJSONText}
    \cup (IF key = USDT_QUOTE_KEY
          THEN {[kind |-> "object", price |-> Int2Num(USDT_PRICE_BASE), timestamp |-> j,
                 source |-> "simulation"] : j \in ForeignTimestamps}
          ELSE {[kind |-> "object", base |-> "USD", rates |-> USD_EXCHANGE_RATES,
                 timestamp |-> j, source |-> "simulation"] : j \in ForeignTimestamps})

ForeignSetItem ==
    \E key \in CacheKeys :
        \E text \in ForeignTexts(key) :
            /\ store' = [store EXCEPT ![key] = text]
            /\ last' = [NoCall EXCEPT !.op = "foreignSetItem", !.key = key, !.at = now,
                                      !.before = store[key]]
            /\ UNCHANGED <<now, inp, out, table, tabs>>

EnvTick == TickUpTo(MaxEnvTicks)

EnvGetCurrentUSDTQuote == CallGetCurrentUSDTQuote(BOOLEAN)

EnvGetCurrentExchangeRates == CallGetCurrentExchangeRates(BOOLEAN)

NextEnv ==
    \/ EnvTick
    \/ EnvGetCurrentUSDTQuote
    \/ EnvGetCurrentExchangeRates
    \/ ForeignSetItem

SpecEnv == Init /\ [][NextEnv]_vars

(***************************************************************************)
(* The pure functions: Init draws a call, one action per function makes it *)
(***************************************************************************)
ConvAmounts ==
    {Int2Num(0), Int2Num(1), Int2Num(100), Int2Num(2400), Num(125, 1), Int2Num(-5),
     Num(123456, 2), NaN}

\* no quote passed, and two quotes of the feed
Quotes == {NoQuote, Quote(Int2Num(1200)), Quote(Int2Num(1185))}

FormatAmounts ==
    {Int2Num(0), Num(5, 1), Num(125, 1), Num(99999, 2), Num(123456, 2), Int2Num(1000000),
     Num(-12345, 1), NaN}

BoolOpts == {NotGiven, "true", "false"}

ValidateAmounts ==
    {NaN, Infinity(-1), Int2Num(-5), Num(-1, 2), Int2Num(0), Num(1, 2), Int2Num(100),
     Int2Num(MAX_AMOUNT - 1), Int2Num(MAX_AMOUNT), Int2Num(MAX_AMOUNT + 1), Infinity(1)}

ParseAlphabet == {"1", "2", ".", ",", "$", "a"}

TextsUpTo(n) == UNION {[1..k -> ParseAlphabet] : k \in 0..n}

\* the texts the specification names, and formatted amounts with their symbols
NamedTexts ==
    {<<"1", ".", "2", "3", "4", ",", "5", "6">>,
     <<"1", ",", "2", "3", "4", ".", "5", "6">>,
     <<"1", ".", "2", "3", "4">>,
     <<"1", ".", "2", "3", "4", ".", "5", "6", "7">>,
     <<"1", ".", "2", "3", "4", ".", "5", "6">>,
     <<"$", " ", "1", "2", ",", "5", "0">>,
     <<"R", "$", " ", "1", "2", ",", "5", "0">>,
     <<"S", "/", " ", "1", "2", ".", "5", "0">>,
     <<"-", "1", "2", ".", "5">>,
     <<"a", "b", "c">>}

\* the ages, in milliseconds, of the timestamps handed to shouldUpdateQuotes
Ages ==
    {0, 1, QUOTE_CACHE_DURATION - 2, QUOTE_CACHE_DURATION - 1, QUOTE_CACHE_DURATION,
     QUOTE_CACHE_DURATION + 1, 61 * 60 * 1000, 0 - 60 * 1000}

LastUpdates == {NullDate, InvalidDate} \cup {DateOf(StartTime - a) : a \in Ages}

InitPure ==
    /\ now = StartTime
    /\ store = [k \in CacheKeys |-> AbsentText]
    /\ last = NoCall
    /\ out = Pending
    /\ table = USD_EXCHANGE_RATES
    /\ tabs = [t \in Tabs |-> Idle]
    /\ \/ inp \in [op : {"convertToUSD", "convertFromUSD"}, amount : ConvAmounts, code : AnyCode]
       \/ inp \in [op : {"convertCurrency"}, amount : ConvAmounts, from : AnyCode, to : AnyCode]
       \/ inp \in [op : {"convertToUSDT", "convertFromUSDT"}, amount : ConvAmounts,
                    code : AnyCode, quote : Quotes]
       \/ inp \in [op : {"getExchangeRate", "formatExchangeRate"}, from : AnyCode, to : AnyCode]
       \/ inp \in [op : {"formatCurrency"}, amount : FormatAmounts, code : AnyCode,
                    showDecimals : BoolOpts, showSymbol : BoolOpts, locale : {NotGiven}]
       \/ inp \in [op : {"formatBalance", "formatMovementAmount"}, amount : FormatAmounts,
                    code : AnyCode]
       \/ inp \in [op : {"parseNumber"}, s : TextsUpTo(MaxLen) \cup NamedTexts]
       \/ inp \in [op : {"validateAmount"}, amount : ValidateAmounts]
       \/ inp \in [op : {"shouldUpdateQuotes"}, lastUpdate : LastUpdates]

\* the call drawn is made and its result kept
Apply(op, result) ==
    /\ inp.op = op
    /\ out = Pending
    /\ out' = result
    /\ UNCHANGED <<now, store, last, inp, table, tabs>>

ApplyConvertToUSD == Apply("convertToUSD", Return(convertToUSD(inp.amount, inp.code)))

ApplyConvertFromUSD == Apply("convertFromUSD", Return(convertFromUSD(inp.amount, inp.code)))

ApplyConvertCurrency ==
    Apply("convertCurrency", Return(convertCurrency(inp.amount, inp.from, inp.to)))

ApplyConvertToUSDT ==
    Apply("convertToUSDT", Return(convertToUSDT(inp.amount, inp.code, inp.quote)))

ApplyConvertFromUSDT ==
    Apply("convertFromUSDT", Return(convertFromUSDT(inp.amount, inp.code, inp.quote)))

ApplyGetExchangeRate == Apply("getExchangeRate", Return(getExchangeRate(inp.from, inp.to)))

ApplyFormatExchangeRate ==
    Apply("formatExchangeRate", Return(formatExchangeRate(inp.from, inp.to)))

ApplyFormatCurrency ==
    Apply("formatCurrency",
          formatCurrency(inp.amount, inp.code, inp.showDecimals, inp.showSymbol, inp.locale))

ApplyFormatBalance == Apply("formatBalance", formatBalance(inp.amount, inp.code))

ApplyFormatMovementAmount ==
    Apply("formatMovementAmount", formatMovementAmount(inp.amount, inp.code))

ApplyParseNumber == Apply("parseNumber", Return(parseNumber(inp.s)))

ApplyValidateAmount == Apply("validateAmount", Return(validateAmount(inp.amount)))

ApplyShouldUpdateQuotes ==
    Apply("shouldUpdateQuotes", Return(shouldUpdateQuotes(inp.lastUpdate, now)))

\* a millisecond passes and the same timestamp is examined again
ReexamineLater ==
    /\ inp.op = "shouldUpdateQuotes"
    /\ out # Pending
    /\ now < StartTime + MaxMs
    /\ now' = now + 1
    /\ out' = Return(shouldUpdateQuotes(inp.lastUpdate, now'))
    /\ UNCHANGED <<store, last, inp, table, tabs>>

\* the text formatCurrency returned is fed to parseNumber
ParseFormatted ==
    /\ inp.op = "formatCurrency"
    /\ out.st = "returned"
    /\ inp' = [op |-> "parseFormatted", formatted |-> inp, s |-> out.val]
    /\ out' = Return(parseNumber(out.val))
    /\ UNCHANGED <<now, store, last, table, tabs>>

NextPure ==
    \/ ApplyConvertToUSD
    \/ ApplyConvertFromUSD
    \/ ApplyConvertCurrency
    \/ ApplyConvertToUSDT
    \/ ApplyConvertFromUSDT
    \/ ApplyGetExchangeRate
    \/ ApplyFormatExchangeRate
    \/ ApplyFormatCurrency
    \/ ApplyFormatBalance
    \/ ApplyFormatMovementAmount
    \/ ApplyParseNumber
    \/ ApplyValidateAmount
    \/ ApplyShouldUpdateQuotes
    \/ ReexamineLater
    \/ ParseFormatted

SpecPure == InitPure /\ [][NextPure]_vars

(***************************************************************************)
(* Conversions called between the operations that change the store: a     *)
(* conversion is called in some state of the store, and the same call is   *)
(* made again in a later state                                             *)
(***************************************************************************)
ConversionCodes == {"USD", "ARS", "XXX"}

ConversionCalls ==
    [op : {"convertToUSD", "convertFromUSD"}, amount : {Int2Num(100)}, code : ConversionCodes]
    \cup [op : {"convertCurrency"}, amount : {Int2Num(100)}, from : ConversionCodes,
          to : ConversionCodes]
    \cup [op : {"getExchangeRate"}, from : ConversionCodes, to : ConversionCodes]
    \cup [op : {"convertToUSDT", "convertFromUSDT"}, amount : {Int2Num(100)},
          code : ConversionCodes, quote : Quotes]

\* the result of the call in the current state
ConversionResult(call) ==
    CASE call.op = "convertToUSD"    -> convertToUSD(call.amount, call.code)
      [] call.op = "convertFromUSD"  -> convertFromUSD(call.amount, call.code)
      [] call.op = "convertCurrency" -> convertCurrency(call.amount, call.from, call.to)
      [] call.op = "getExchangeRate" -> getExchangeRate(call.from, call.to)
      [] call.op = "convertToUSDT"   -> convertToUSDT(call.amount, call.code, call.quote)
      [] call.op = "convertFromUSDT" -> convertFromUSDT(call.amount, call.code, call.quote)

Convert ==
    \E call \in ConversionCalls :
        /\ inp = NoInput
        /\ inp' = call
        /\ out' = Return(ConversionResult(call))
        /\ UNCHANGED <<now, store, last, table, tabs>>

ConvertAgain ==
    /\ inp \in ConversionCalls
    /\ inp' = [op |-> "again", call |-> inp, first |-> out]
    /\ out' = Return(ConversionResult(inp))
    /\ UNCHANGED <<now, store, last, table, tabs>>

NextStores ==
    \/ GetCurrentUSDTQuote
    \/ GetCurrentExchangeRates
    \/ SaveUSDTQuote
    \/ SaveExchangeRates
    \/ Convert
    \/ ConvertAgain

SpecStores == Init /\ [][NextStores]_vars

(***************************************************************************)
(* Two callers of getCurrentUSDTQuote (two tabs of the browser) on one     *)
(* store: each tab runs the call in the steps the code takes, the read     *)
(* (getCachedUSDTQuote), the generation and the write                      *)
(* (saveUSDTQuoteToCache), and the steps of the two tabs interleave        *)
(***************************************************************************)
\* what an earlier call left in the store when the tabs start: nothing, or a quote
\* generated an hour ago, or one generated a millisecond less than an hour ago
EarlierQuoteTexts ==
    {AbsentText}
    \cup {StringifyQuote(generateUSDTQuote(StartTime - age, Num(5, 1))) :
            age \in {QUOTE_CACHE_DURATION, QUOTE_CACHE_DURATION - 1}}

InitRace ==
    /\ now = StartTime
    /\ store \in {[k \in CacheKeys |-> IF k = USDT_QUOTE_KEY THEN text ELSE AbsentText] :
                    text \in EarlierQuoteTexts}
    /\ last = NoCall
    /\ inp = NoInput
    /\ out = Pending
    /\ table = USD_EXCHANGE_RATES
    /\ tabs = [t \in Tabs |-> Idle]

\* the tabs that have written, or tried to
Writers == {t \in Tabs : tabs[t].pc = "done" /\ tabs[t].generated}

RaceTick ==
    /\ now < StartTime + MaxRaceTicks * TickMs
    /\ now' = now + TickMs
    /\ UNCHANGED <<store, last, inp, out, table, tabs>>

\* a tab calls getCurrentUSDTQuote
RaceBegin ==
    \E t \in Tabs :
        /\ tabs[t].pc = "idle"
        /\ tabs' = [tabs EXCEPT ![t] = [pc |-> "read"]]
        /\ UNCHANGED <<now, store, last, inp, out, table>>

\* const cached = getCachedUSDTQuote(); if (cached) return cached
RaceRead ==
    \E t \in Tabs :
        /\ tabs[t].pc = "read"
        /\ LET cached == getCachedUSDTQuote(store, now, FALSE)
           IN  tabs' = [tabs EXCEPT ![t] =
                   IF cached.st = "returned" /\ cached.val = NullObject
                   THEN [pc |-> "generate", saw |-> store[USDT_QUOTE_KEY], readAt |-> now]
                   ELSE [pc |-> "done", saw |-> store[USDT_QUOTE_KEY], readAt |-> now,
                         res |-> cached,
                         generated |-> FALSE, writeThrew |-> FALSE, order |-> 0]]
        /\ UNCHANGED <<now, store, last, inp, out, table>>

\* const newQuote = generateUSDTQuote()
RaceGenerate ==
    \E t \in Tabs, r \in RandomValues :
        /\ tabs[t].pc = "generate"
        /\ tabs' = [tabs EXCEPT ![t] =
                       [pc |-> "write", saw |-> tabs[t].saw, readAt |-> tabs[t].readAt,
                        newQuote |-> generateUSDTQuote(now, r)]]
        /\ UNCHANGED <<now, store, last, inp, out, table>>

\* saveUSDTQuoteToCache(newQuote); return newQuote
RaceWrite ==
    \E t \in Tabs, writeThrows \in BOOLEAN :
        /\ tabs[t].pc = "write"
        /\ LET saved == saveUSDTQuoteToCache(store, tabs[t].newQuote, writeThrows)
           IN  /\ store' = saved.store
               /\ tabs' = [tabs EXCEPT ![t] =
                       [pc |-> "done", saw |-> tabs[t].saw, readAt |-> tabs[t].readAt,
                        res |-> IF saved.res.st = "threw" THEN saved.res
                                ELSE Return(tabs[t].newQuote),
                        generated |-> TRUE, writeThrew |-> writeThrows,
                        order |-> Cardinality(Writers) + 1]]
        /\ UNCHANGED <<now, last, inp, out, table>>

NextRace ==
    \/ RaceTick
    \/ RaceBegin
    \/ RaceRead
    \/ RaceGenerate
    \/ RaceWrite

SpecRace == InitRace /\ [][NextRace]_vars

(***************************************************************************)
(* Two callers of addMovement on one store: each tab runs the call in its  *)
(* two steps on the store, the read (getMovements) and the write           *)
(* (saveMovements of the list read with the movement pushed)               *)
(***************************************************************************)
Item(id, amount) == [id |-> id, amount |-> amount, createdAt |-> DateOf(StartTime)]

\* the movements the tabs add
RaceMovements == {Item("a", 1), Item("b", 2)}

\* what earlier calls of addMovement left in the store when the tabs start
EarlierMovements == {<<>>, <<Item("c", 3)>>, <<Item("c", 3), Item("a", 1)>>}

InitListRace ==
    /\ now = StartTime
    /\ store \in {[k \in StorageKeys |->
                      IF k = STORAGE_KEYS.MOVEMENTS /\ earlier # <<>>
                      THEN StringifyItems(earlier) ELSE AbsentText] :
                    earlier \in EarlierMovements}
    /\ last = NoCall
    /\ inp = NoInput
    /\ out = Pending
    /\ table = USD_EXCHANGE_RATES
    /\ tabs = [t \in Tabs |-> Idle]

\* the tabs whose call has returned
Returned == {t \in Tabs : tabs[t].pc = "done"}

\* a tab calls addMovement(movement)
ListBegin ==
    \E t \in Tabs, movement \in RaceMovements :
        /\ tabs[t].pc = "idle"
        /\ tabs' = [tabs EXCEPT ![t] = [pc |-> "read", movement |-> movement]]
        /\ UNCHANGED <<now, store, last, inp, out, table>>

\* const movements = this.getMovements()
ListRead ==
    \E t \in Tabs :
        /\ tabs[t].pc = "read"
        /\ tabs' = [tabs EXCEPT ![t] = [pc |-> "write", movement |-> tabs[t].movement,
                                        movements |-> getMovements(store)]]
        /\ UNCHANGED <<now, store, last, inp, out, table>>

\* movements.push(movement); return this.saveMovements(movements)
ListWrite ==
    \E t \in Tabs, writeThrows \in BOOLEAN :
        /\ tabs[t].pc = "write"
        /\ LET saved == saveMovements(store, Push(tabs[t].movements, tabs[t].movement),
                                      writeThrows)
           IN  /\ store' = saved.store
               /\ tabs' = [tabs EXCEPT ![t] =
                       [pc |-> "done", movement |-> tabs[t].movement,
                        movements |-> tabs[t].movements, res |-> saved.res,
                        order |-> Cardinality(Returned) + 1]]
        /\ UNCHANGED <<now, last, inp, out, table>>

NextListRace ==
    \/ ListBegin
    \/ ListRead
    \/ ListWrite

SpecListRace == InitListRace /\ [][NextListRace]_vars

(***************************************************************************)
(* The resets: one caller fills the nine keys, resets, and asks for the    *)
(* quote and the rates again.  The clock stands still, so a value that was *)
(* generated before a reset is fresh when the reset removes it.            *)
(***************************************************************************)
\* the most items the lists hold together
MaxStored == 1

SomeProfile == [null |-> FALSE, name |-> "Ana", createdAt |-> DateOf(StartTime)]

\* what some other part of the application keeps under APP_STATE
SomeAppState == [kind |-> "object", view |-> "dashboard"]

\* a quote and a snapshot saved an hour before the start
StaleQuoteText ==
    StringifyQuote([null |-> FALSE, price |-> Num(11955, 1),
                    timestamp |-> DateOf(StartTime - QUOTE_CACHE_DURATION),
                    source |-> "binance"])

StaleRatesText ==
    StringifyRates([null |-> FALSE, base |-> "USD", rates |-> USD_EXCHANGE_RATES,
                    timestamp |-> DateOf(StartTime - QUOTE_CACHE_DURATION),
                    source |-> "api"])

\* no reset yet, or both getCurrent functions were called since the last one
NoReset == [op |-> "none", cached |-> [k \in CacheKeys |-> AbsentText], awaited |-> {}]

InitReset ==
    /\ now = StartTime
    /\ store \in {[k \in StorageKeys |->
                      CASE k = STORAGE_KEYS.APP_STATE -> appState
                        [] k = STORAGE_KEYS.USDT_QUOTE /\ stale -> StaleQuoteText
                        [] k = STORAGE_KEYS.EXCHANGE_RATES /\ stale -> StaleRatesText
                        [] OTHER -> AbsentText] :
                    appState \in {AbsentText, SomeAppState}, stale \in BOOLEAN}
    /\ last = NoCall
    /\ inp = NoReset
    /\ out = Pending
    /\ table = USD_EXCHANGE_RATES
    /\ tabs = [t \in Tabs |-> Idle]

StoredItems(st) ==
    Len(getMovements(st)) + Len(getSavingGoals(st)) + Len(getSavingTransactions(st))

\* what a DatabaseManager call leaves in last
DbCalled(op, c) ==
    [op |-> op, before |-> store, res |-> c.res, setItemCalls |-> c.setItemCalls]

\* a call that fills one of the keys
Fill(op, c) ==
    /\ store' = c.store
    /\ last' = [op |-> op, res |-> c.res]
    /\ UNCHANGED <<now, inp, out, table, tabs>>

ResetSaveUserProfile ==
    \E writeThrows \in BOOLEAN :
        Fill("saveUserProfile", saveUserProfile(store, SomeProfile, writeThrows))

ResetSetOnboardingStatus ==
    \E writeThrows \in BOOLEAN :
        Fill("setOnboardingStatus", setOnboardingStatus(store, TRUE, writeThrows))

ResetSetBalanceDisplayCurrency ==
    \E writeThrows \in BOOLEAN :
        Fill("setBalanceDisplayCurrency", setBalanceDisplayCurrency(store, "ARS", writeThrows))

ResetAddMovement ==
    /\ StoredItems(store) < MaxStored
    /\ \E writeThrows \in BOOLEAN :
           Fill("addMovement", addMovement(store, Item("m1", 10), writeThrows))

ResetAddSavingGoal ==
    /\ StoredItems(store) < MaxStored
    /\ \E writeThrows \in BOOLEAN :
           Fill("addSavingGoal", addSavingGoal(store, Item("g1", 20), writeThrows))

ResetAddSavingTransaction ==
    /\ StoredItems(store) < MaxStored
    /\ \E writeThrows \in BOOLEAN :
           Fill("addSavingTransaction",
                addSavingTransaction(store, Item("t1", 30), writeThrows))

\* a reset: inp keeps what the cache held and which getCurrent calls are still to
\* come after it
Reset(op, c) ==
    /\ store' = c.store
    /\ last' = DbCalled(op, c)
    /\ inp' = [op |-> op, cached |-> [k \in CacheKeys |-> store[k]], awaited |-> CacheKeys]
    /\ UNCHANGED <<now, out, table, tabs>>

ResetAllData == Reset("resetAllData", resetAllData(store))

ResetFinancialData == Reset("resetFinancialData", resetFinancialData(store))

\* what a getCurrent call leaves in last: afterReset names the reset it is the first
\* such call after, and what that reset found in the cache
CalledAfterReset(op, key, c) ==
    [op |-> op, key |-> key, at |-> now, before |-> store[key], res |-> c.res,
     setItemCalls |-> c.setItemCalls, generated |-> c.generated,
     writeThrew |-> c.writeThrew,
     afterReset |-> IF key \in inp.awaited THEN inp.op ELSE "none",
     cached |-> IF key \in inp.awaited THEN inp.cached[key] ELSE AbsentText]

\* the reset is forgotten once both calls have come
Awaiting(key) ==
    IF inp.awaited \ {key} = {} THEN NoReset ELSE [inp EXCEPT !.awaited = @ \ {key}]

ResetGetCurrentUSDTQuote ==
    \E writeThrows \in BOOLEAN :
        LET c == getCurrentUSDTQuote(store, now, Num(5, 1), FALSE, writeThrows)
        IN  /\ store' = c.store
            /\ last' = CalledAfterReset("getCurrentUSDTQuote", USDT_QUOTE_KEY, c)
            /\ inp' = Awaiting(USDT_QUOTE_KEY)
            /\ UNCHANGED <<now, out, table, tabs>>

ResetGetCurrentExchangeRates ==
    \E rs \in {[c \in NonUSD |-> Num(25, 2)]}, writeThrows \in BOOLEAN :
        LET c == getCurrentExchangeRates(store, now, rs, FALSE, writeThrows)
        IN  /\ store' = c.store
            /\ last' = CalledAfterReset("getCurrentExchangeRates", EXCHANGE_RATES_KEY, c)
            /\ inp' = Awaiting(EXCHANGE_RATES_KEY)
            /\ table' = (IF c.generated THEN JitterRates(table, rs).table ELSE table)
            /\ UNCHANGED <<now, out, tabs>>

NextReset ==
    \/ ResetSaveUserProfile
    \/ ResetSetOnboardingStatus
    \/ ResetSetBalanceDisplayCurrency
    \/ ResetAddMovement
    \/ ResetAddSavingGoal
    \/ ResetAddSavingTransaction
    \/ ResetAllData
    \/ ResetFinancialData
    \/ ResetGetCurrentUSDTQuote
    \/ ResetGetCurrentExchangeRates

SpecReset == InitReset /\ [][NextReset]_vars

(***************************************************************************)
(* DatabaseManager's updates and deletes: one caller adds, updates and     *)
(* deletes movements and saving goals and saves and updates the profile.   *)
(* Ids repeat in the lists, since addMovement and addSavingGoal check none.*)
(***************************************************************************)
\* the most items the two lists hold together
MaxItems == 3

\* a movement whose createdAt is an Invalid Date, which JSON.stringify writes as null
UndatedItem(id, amount) == [id |-> id, amount |-> amount, createdAt |-> InvalidDate]

NewMovements == {Item("a", 1), Item("a", 2), UndatedItem("b", 1)}

UpdatedMovements == {Item("a", 9), Item("c", 9)}

NewGoals == {Item("g", 1), Item("g", 2)}

UpdatedGoals == {Item("g", 9), Item("h", 9)}

InitDb ==
    /\ now = StartTime
    /\ store = [k \in StorageKeys |-> AbsentText]
    /\ last = NoCall
    /\ inp = NoInput
    /\ out = Pending
    /\ table = USD_EXCHANGE_RATES
    /\ tabs = [t \in Tabs |-> Idle]

\* a DatabaseManager call with its argument: the store it found is kept in last
DbCall(op, arg, c, writeThrows) ==
    /\ store' = c.store
    /\ last' = [op |-> op, arg |-> arg, before |-> store, res |-> c.res,
                setItemCalls |-> c.setItemCalls,
                writeThrew |-> writeThrows /\ c.setItemCalls > 0]
    /\ UNCHANGED <<now, inp, out, table, tabs>>

ListedItems(st) == Len(getMovements(st)) + Len(getSavingGoals(st))

DbAddMovement ==
    /\ ListedItems(store) < MaxItems
    /\ \E movement \in NewMovements, writeThrows \in BOOLEAN :
           DbCall("addMovement", movement, addMovement(store, movement, writeThrows),
                  writeThrows)

DbUpdateMovement ==
    \E updatedMovement \in UpdatedMovements, writeThrows \in BOOLEAN :
        DbCall("updateMovement", updatedMovement,
               updateMovement(store, updatedMovement, writeThrows), writeThrows)

DbDeleteMovement ==
    \E movementId \in {"a", "c"}, writeThrows \in BOOLEAN :
        DbCall("deleteMovement", movementId, deleteMovement(store, movementId, writeThrows),
               writeThrows)

DbAddSavingGoal ==
    /\ ListedItems(store) < MaxItems
    /\ \E goal \in NewGoals, writeThrows \in BOOLEAN :
           DbCall("addSavingGoal", goal, addSavingGoal(store, goal, writeThrows), writeThrows)

DbUpdateSavingGoal ==
    \E updatedGoal \in UpdatedGoals, writeThrows \in BOOLEAN :
        DbCall("updateSavingGoal", updatedGoal,
               updateSavingGoal(store, updatedGoal, writeThrows), writeThrows)

DbDeleteSavingGoal ==
    \E goalId \in {"g", "h"}, writeThrows \in BOOLEAN :
        DbCall("deleteSavingGoal", goalId, deleteSavingGoal(store, goalId, writeThrows),
               writeThrows)

DbSaveUserProfile ==
    \E writeThrows \in BOOLEAN :
        DbCall("saveUserProfile", SomeProfile,
               saveUserProfile(store, SomeProfile, writeThrows), writeThrows)

DbUpdateUserProfile ==
    \E updates \in {[name |-> "Bea"]}, writeThrows \in BOOLEAN :
        DbCall("updateUserProfile", updates, updateUserProfile(store, updates, writeThrows),
               writeThrows)

NextDb ==
    \/ DbAddMovement
    \/ DbUpdateMovement
    \/ DbDeleteMovement
    \/ DbAddSavingGoal
    \/ DbUpdateSavingGoal
    \/ DbDeleteSavingGoal
    \/ DbSaveUserProfile
    \/ DbUpdateUserProfile

SpecDb == InitDb /\ [][NextDb]_vars

(***************************************************************************)
(* Claims                                                                  *)
(***************************************************************************)
GetCurrentOps == {"getCurrentUSDTQuote", "getCurrentExchangeRates"}

\* JSON.stringify of what a getCurrent call returned
StringifyReturned(call) ==
    IF call.op = "getCurrentUSDTQuote" THEN StringifyQuote(call.res.val)
    ELSE StringifyRates(call.res.val)

\* the text is a value stamped less than one hour (3,600,000 ms) before t
HoldsValueYoungerThanAnHour(text, t) ==
    /\ text.kind = "object"
    /\ text.timestamp.t = "iso"
    /\ t - text.timestamp.ms < 3600000

C1_EachCall ==
    last.op \in GetCurrentOps =>
        /\ last.res.st = "returned"
        /\ last.othersSame
        /\ IF HoldsValueYoungerThanAnHour(last.before, last.at)
           THEN /\ StringifyReturned(last) = last.before
                /\ ~last.generated
                /\ last.setItemCalls = 0
                /\ store[last.key] = last.before
           ELSE /\ last.generated
                /\ last.res.val.timestamp = DateOf(last.at)
                /\ last.setItemCalls = 1
                /\ ~last.writeThrew => store[last.key] = StringifyReturned(last)

\* a call that follows a call of the same function whose value was stored, less
\* than an hour after that value was generated, returns the identical value
C1_Repeat ==
    (/\ last.op \in GetCurrentOps
     /\ last'.op = last.op
     /\ last' # last
     /\ ~last.writeThrew
     /\ last'.at - last.res.val.timestamp.ms < 3600000)
        => last'.res = last.res

\* C1: getCurrentUSDTQuote and getCurrentExchangeRates return the stored value,
\* unchanged and without writing, when the store holds under their key a value less
\* than one hour old; otherwise they generate a value stamped with the current time,
\* write it under the same key and return it.  With working storage, calls made
\* less than an hour after the last regeneration return the identical value.
C1_CacheHitOrRegenerate == []C1_EachCall /\ [][C1_Repeat]_vars

\* a call an hour's half after the value was stored returned it from the store
C1_Witness ==
    /\ last.op = "getCurrentUSDTQuote"
    /\ ~last.generated
    /\ last.before.kind = "object"
    /\ last.at - last.before.timestamp.ms = TickMs
    /\ last.res.val.source = "simulation"

C2_Iff ==
    (inp.op = "shouldUpdateQuotes" /\ out # Pending) =>
        /\ out.st = "returned"
        /\ out.val \in BOOLEAN
        /\ out.val <=> (\/ inp.lastUpdate.null
                        \/ inp.lastUpdate.valid /\ now - inp.lastUpdate.ms >= 3600000)
        /\ inp.lastUpdate = DateOf(now - 60 * 60 * 1000) => out.val
        /\ inp.lastUpdate = DateOf(now - 61 * 60 * 1000) => out.val
        /\ inp.lastUpdate = DateOf(now) => ~out.val
        /\ inp.lastUpdate = NullDate => out.val

\* time passing never turns a Stale value Fresh
C2_OnlyFreshToStale ==
    (inp.op = "shouldUpdateQuotes" /\ inp' = inp /\ out = Return(TRUE)) => out' = Return(TRUE)

\* C2: shouldUpdateQuotes(lastUpdate) is true exactly when lastUpdate is null or
\* now - lastUpdate >= 3,600,000 ms: a value aged exactly one hour or 61 minutes is
\* Stale, one stamped now is Fresh; a value is Fresh or Stale, and the passage of
\* time only ever takes it from Fresh to Stale.
C2_ShouldUpdateQuotes == []C2_Iff /\ [][C2_OnlyFreshToStale]_vars

\* a value that was Fresh a millisecond ago has reached the age of one hour and is Stale
C2_Witness ==
    /\ inp.op = "shouldUpdateQuotes"
    /\ inp.lastUpdate.valid
    /\ now > StartTime
    /\ now - inp.lastUpdate.ms = 3600000
    /\ out = Return(TRUE)

\* the text cannot be read as a value with a valid timestamp
Undeserializable(text) ==
    \/ text.kind \in {"invalid", "null"}
    \/ text.kind = "object" /\ text.timestamp.t \in {"missing", "text"}

\* C3 (as claimed): whenever the read throws, the stored text is not valid JSON or
\* does not deserialize to a value with a valid timestamp (the timestamp is missing
\* or is no parseable date), the cache counts as empty: getCurrentUSDTQuote and
\* getCurrentExchangeRates return a newly generated value and write it back, and no
\* exception reaches the caller.
C3_ReadFailureRegenerates ==
    (last.op \in GetCurrentOps /\ (last.readThrew \/ Undeserializable(last.before))) =>
        /\ last.res.st = "returned"
        /\ last.generated
        /\ last.res.val.timestamp = DateOf(last.at)
        /\ last.setItemCalls = 1
        /\ ~last.writeThrew => store[last.key] = StringifyReturned(last)

\* a stored quote without a timestamp was returned as it was: nothing generated,
\* nothing written
C3_Witness ==
    /\ last.op = "getCurrentUSDTQuote"
    /\ last.before.kind = "object"
    /\ last.before.timestamp.t = "missing"
    /\ last.res.st = "returned"
    /\ last.res.val.timestamp = InvalidDate
    /\ ~last.generated
    /\ last.setItemCalls = 0

\* the cache was empty or held a value an hour old or older
EmptyOrStale(text, t) ==
    \/ text.kind = "absent"
    \/ text.kind = "object" /\ text.timestamp.t = "iso" /\ t - text.timestamp.ms >= 3600000

C4_EachCall ==
    (last.op \in GetCurrentOps /\ EmptyOrStale(last.before, last.at) /\ last.writeThrew) =>
        /\ last.res.st = "returned"
        /\ last.generated
        /\ last.res.val.timestamp = DateOf(last.at)
        /\ last.setItemCalls = 1
        /\ store[last.key] = last.before
        /\ last.othersSame

\* the call after a call whose write failed generates again
C4_NextCall ==
    (/\ last.op \in GetCurrentOps
     /\ EmptyOrStale(last.before, last.at)
     /\ last.writeThrew
     /\ last'.op = last.op
     /\ last' # last)
        => (last'.res.st = "returned" /\ last'.generated)

\* C4: when the cache is empty or Stale and setItem throws, getCurrentUSDTQuote and
\* getCurrentExchangeRates still return the value they generated, raise nothing,
\* call setItem exactly once and leave the store as it was; the next call
\* generates again.
C4_WriteFailure == []C4_EachCall /\ [][C4_NextCall]_vars

\* a second call in a row generated a value that could not be written
C4_Witness ==
    /\ last.op = "getCurrentUSDTQuote"
    /\ last.writeThrew
    /\ last.generated
    /\ last.before.kind = "object"
    /\ last.at - last.before.timestamp.ms >= 3600000
    /\ store[USDT_QUOTE_KEY] = last.before

\* the rate the claim has a side of a conversion use: 1 for a code outside the table
RateOrOne(code) == IF code \in Currencies THEN USD_EXCHANGE_RATES[code] ELSE Int2Num(1)

IsNumber(v) == v.k \in {"num", "nan", "inf"}

\* C5 (as claimed): no operation of the conversion and formatting core aborts on a
\* currency code outside the rate table: convertToUSD and convertFromUSD return the
\* amount unchanged, getExchangeRate uses 1 for the unknown side, convertCurrency,
\* convertToUSDT and convertFromUSDT return a number, and formatCurrency,
\* formatBalance, formatMovementAmount and formatExchangeRate return a string.
C5_UnknownCodeNeverAborts ==
    out # Pending =>
        /\ (inp.op \in {"convertToUSD", "convertFromUSD"} /\ inp.code \notin Currencies)
              => out = Return(inp.amount)
        /\ (inp.op = "getExchangeRate" /\ inp.from # inp.to
               /\ (inp.from \notin Currencies \/ inp.to \notin Currencies))
              => out = Return(Mul(RateOrOne(inp.from), Div(Int2Num(1), RateOrOne(inp.to))))
        /\ (inp.op = "convertCurrency"
               /\ (inp.from \notin Currencies \/ inp.to \notin Currencies))
              => (out.st = "returned" /\ IsNumber(out.val))
        /\ (inp.op \in {"convertToUSDT", "convertFromUSDT"} /\ inp.code \notin Currencies)
              => (out.st = "returned" /\ IsNumber(out.val))
        /\ (inp.op = "formatExchangeRate"
               /\ (inp.from \notin Currencies \/ inp.to \notin Currencies))
              => (out.st = "returned" /\ Len(out.val) > 0)
        /\ (inp.op \in {"formatCurrency", "formatBalance", "formatMovementAmount"}
               /\ inp.code \notin Currencies)
              => (out.st = "returned" /\ Len(out.val) > 0)

\* formatBalance of a code outside the table raised a TypeError
C5_Witness ==
    /\ inp.op = "formatBalance"
    /\ inp.code \notin Currencies
    /\ out = Throw("TypeError")

\* the cleaned text of an input and the places of its last period and comma
Cleaned(input) == Filter(input, SymbolChars)

HasDigit(s) == \E i \in 1..Len(s) : IsDigit(s[i])

CountOf(s, c) == Cardinality({i \in 1..Len(s) : s[i] = c})

\* the decimal separator the claimed rule picks: "," or "." or none
ClaimedSeparator(c) ==
    LET lastDot == LastIndexOf(c, ".")
        lastComma == LastIndexOf(c, ",")
    IN  IF lastComma > lastDot THEN ","
        ELSE IF lastDot # -1 /\ Len(c) - (lastDot + 1) <= 2 THEN "."
        ELSE "none"

\* a grouped number: digits and separators only, a digit first, and one reading
\* under the claimed rule (a single decimal comma; no comma where no separator is
\* the decimal one)
Grouped(c) ==
    /\ c # <<>>
    /\ IsDigit(c[1])
    /\ \A i \in 1..Len(c) : IsDigit(c[i]) \/ c[i] \in {".", ","}
    /\ ClaimedSeparator(c) = "," => CountOf(c, ",") = 1
    /\ ClaimedSeparator(c) = "none" => CountOf(c, ",") = 0

\* the number the claimed rule reads: the digits before the decimal separator with
\* every other separator dropped, then the digits after it
ClaimedNumber(c) ==
    LET sep == ClaimedSeparator(c)
        at  == IF sep = "none" THEN Len(c) ELSE LastIndexOf(c, sep)
        ip  == Filter(Slice(c, 0, at), {".", ","})
        fp  == IF sep = "none" THEN <<>> ELSE Slice(c, at + 1, Len(c))
    IN  Normalize(DigitsValue(ip \o fp, 0), Len(fp))

\* C6 (as claimed): parseNumber strips currency symbols and whitespace and reads the
\* number by this rule: a comma after the last period is the decimal separator and
\* the periods are dropped; otherwise a period with at most 2 characters after it is
\* the decimal separator and every other grouping separator is dropped; otherwise
\* all periods are dropped.  parseNumber("1.234,56") = 1234.56,
\* parseNumber("1,234.56") = 1234.56, parseNumber("1.234") = 1234, and a cleaned
\* text that is not numeric gives 0.
C6_ParseNumberRule ==
    (inp.op = "parseNumber" /\ out # Pending) =>
        /\ inp.s = <<"1", ".", "2", "3", "4", ",", "5", "6">> => out = Return(Num(123456, 2))
        /\ inp.s = <<"1", ".", "2", "3", "4">> => out = Return(Int2Num(1234))
        /\ inp.s = <<"1", ",", "2", "3", "4", ".", "5", "6">> => out = Return(Num(123456, 2))
        /\ ~HasDigit(Cleaned(inp.s)) => out = Return(Int2Num(0))
        /\ Grouped(Cleaned(inp.s)) => out = Return(ClaimedNumber(Cleaned(inp.s)))

\* "1,234.56" was read as 1
C6_Witness ==
    /\ inp.op = "parseNumber"
    /\ inp.s = <<"1", ",", "2", "3", "4", ".", "5", "6">>
    /\ out = Return(Int2Num(1))

\* a number in thousandths, rounded down
Thousandths(a) == IF a.e <= 3 THEN a.m * Pow10(3 - a.e) ELSE a.m \div Pow10(a.e - 3)

\* C7 (as claimed): for every supported currency and every amount, the text
\* formatCurrency produces (any showDecimals and showSymbol, the currency's default
\* locale), fed to parseNumber, gives the amount back within 2-decimal rounding
\* (0.005), or within whole-unit rounding (0.5) when showDecimals is false.
C7_FormatParseRoundTrip ==
    (inp.op = "parseFormatted" /\ inp.formatted.code \in Currencies
        /\ inp.formatted.amount.k = "num") =>
        /\ out.st = "returned"
        /\ out.val.k = "num"
        /\ Abs(Thousandths(out.val) - Thousandths(inp.formatted.amount))
              <= (IF inp.formatted.showDecimals = "false" THEN 500 ELSE 5)

\* 1234.56 dollars, formatted "$ 1,234.56", were read back as 1
C7_Witness ==
    /\ inp.op = "parseFormatted"
    /\ inp.formatted.code = "USD"
    /\ inp.formatted.amount = Num(123456, 2)
    /\ inp.s = <<"$", " ", "1", ",", "2", "3", "4", ".", "5", "6">>
    /\ out = Return(Int2Num(1))

\* C8: same-currency conversion is the exact identity: convertCurrency(x, C, C)
\* returns x itself for every code C and amount x, getExchangeRate(C, C) is exactly
\* 1, and convertToUSD(x, USD) and convertFromUSD(x, USD) return x.
C8_SameCurrencyIdentity ==
    out # Pending =>
        /\ (inp.op = "convertCurrency" /\ inp.from = inp.to) => out = Return(inp.amount)
        /\ (inp.op = "getExchangeRate" /\ inp.from = inp.to) => out = Return(Int2Num(1))
        /\ (inp.op \in {"convertToUSD", "convertFromUSD"} /\ inp.code = "USD")
              => out = Return(inp.amount)

\* 1234.56 pesos converted to pesos came back as 1234.56
C8_Witness ==
    /\ inp.op = "convertCurrency"
    /\ inp.from = "ARS"
    /\ inp.to = "ARS"
    /\ inp.amount = Num(123456, 2)
    /\ out = Return(Num(123456, 2))

\* C9: convertToUSDT and convertFromUSDT, for every currency and optional quote:
\* ARS with a quote gives amount / quote.price (to USDT) or amount * quote.price
\* (from USDT); ARS without a quote and every other currency but USD and USDT give
\* what convertToUSD / convertFromUSD give; USD and USDT give the amount unchanged,
\* quote or no quote.
C9_USDTDispatch ==
    (inp.op \in {"convertToUSDT", "convertFromUSDT"} /\ out # Pending) =>
        LET toUSDT == inp.op = "convertToUSDT"
        IN  /\ out.st = "returned"
            /\ (inp.code = "ARS" /\ inp.quote.present) =>
                  out.val = (IF toUSDT THEN Div(inp.amount, inp.quote.price)
                             ELSE Mul(inp.amount, inp.quote.price))
            /\ (inp.code \notin {"USD", "USDT"} /\ ~(inp.code = "ARS" /\ inp.quote.present)) =>
                  out.val = (IF toUSDT THEN convertToUSD(inp.amount, inp.code)
                             ELSE convertFromUSD(inp.amount, inp.code))
            /\ inp.code \in {"USD", "USDT"} => out.val = inp.amount
            /\ (toUSDT /\ inp.code = "ARS" /\ inp.amount = Int2Num(2400)) =>
                  (/\ inp.quote = Quote(Int2Num(1200)) => out.val = Int2Num(2)
                   /\ inp.quote = NoQuote => out.val = Num(264, 2))
            /\ (~toUSDT /\ inp.code = "ARS" /\ inp.amount = Int2Num(100)) =>
                  (/\ inp.quote = Quote(Int2Num(1200)) => out.val = Int2Num(120000)
                   /\ inp.quote = Quote(Int2Num(1185)) => out.val = Int2Num(118500))

\* 2400 pesos at a quote of 1200 pesos per USDT came to 2 USDT
C9_Witness ==
    /\ inp.op = "convertToUSDT"
    /\ inp.code = "ARS"
    /\ inp.quote = Quote(Int2Num(1200))
    /\ inp.amount = Int2Num(2400)
    /\ out = Return(Int2Num(2))

\* the amounts of ValidateAmounts that are not-a-number or negative, and those
\* above 999,999,999
NotPositiveNumbers == {NaN, Infinity(-1), Int2Num(-5), Num(-1, 2)}

TooLarge == {Int2Num(1000000000), Infinity(1)}

\* C10: validateAmount never raises; it returns isValid = false with a reason
\* exactly when the amount is not-a-number, negative, zero or above 999,999,999,
\* and isValid = true with no reason for every amount in (0, 999,999,999]; zero gets
\* the "greater than zero" reason, and 999,999,999 itself is valid.
C10_ValidateAmount ==
    (inp.op = "validateAmount" /\ out # Pending) =>
        /\ out.st = "returned"
        /\ out.val.isValid <=>
              (inp.amount \notin NotPositiveNumbers \cup TooLarge \cup {Int2Num(0)})
        /\ out.val.isValid <=> (out.val.error = "undefined")
        /\ inp.amount \in NotPositiveNumbers
              => out.val.error = "El monto debe ser un numero positivo"
        /\ inp.amount = Int2Num(0) => out.val.error = "El monto debe ser mayor a cero"
        /\ inp.amount \in TooLarge => out.val.error = "El monto es demasiado grande"
        /\ inp.amount = Int2Num(999999999) => out.val.isValid

\* 999,999,999 was found valid
C10_Witness ==
    /\ inp.op = "validateAmount"
    /\ inp.amount = Int2Num(999999999)
    /\ out = Return([isValid |-> TRUE, error |-> "undefined"])

\* 1180 <= price <= 1220
InPriceRange(price) ==
    /\ price.k = "num"
    /\ GreaterEq(price, Int2Num(1180))
    /\ GreaterEq(Int2Num(1220), price)

\* C11: every quote generateUSDTQuote produces, for every value the random source
\* can return in [0, 1), has a price within [1180, 1220], a timestamp equal to the
\* current time and source 'simulation'; hence every quote getCurrentUSDTQuote
\* writes to the cache has a price in that range.
C11_GeneratedQuoteInRange ==
    /\ \A r \in RandomValues :
          LET q == generateUSDTQuote(now, r)
          IN  InPriceRange(q.price) /\ q.timestamp = DateOf(now) /\ q.source = "simulation"
    /\ (last.op = "getCurrentUSDTQuote" /\ last.generated) =>
          /\ InPriceRange(last.res.val.price)
          /\ last.res.val.timestamp = DateOf(last.at)
          /\ last.res.val.source = "simulation"
          /\ ~last.writeThrew => store[USDT_QUOTE_KEY] = StringifyQuote(last.res.val)
    /\ (store[USDT_QUOTE_KEY].kind = "object" /\ store[USDT_QUOTE_KEY].source = "simulation")
          => InPriceRange(store[USDT_QUOTE_KEY].price)

\* a quote generated at the top of the range, 1220, is in the cache
C11_Witness ==
    /\ last.op = "getCurrentUSDTQuote"
    /\ last.generated
    /\ last.res.val.price = Int2Num(1220)
    /\ store[USDT_QUOTE_KEY] = StringifyQuote(last.res.val)

\* a rate table: USD is exactly 1, and all 11 codes are there with a positive rate
WellFormedRates(rates) ==
    /\ DOMAIN rates = Currencies
    /\ Cardinality(DOMAIN rates) = 11
    /\ rates["USD"] = Int2Num(1)
    /\ \A c \in Currencies : rates[c].k = "num" /\ Greater(rates[c], Int2Num(0))

\* each rate but that of USD is within 1% of its value in the static table
WithinOnePercent(rates) ==
    \A c \in Currencies \ {"USD"} :
        /\ GreaterEq(rates[c], Mul(USD_EXCHANGE_RATES[c], Num(99, 2)))
        /\ GreaterEq(Mul(USD_EXCHANGE_RATES[c], Num(101, 2)), rates[c])

\* C12: in the static rate table and in every snapshot generateExchangeRates
\* produces, USD maps to exactly 1, base is 'USD', all 11 currency codes are present
\* with a positive rate and each non-USD rate lies within plus or minus 1% of its
\* static base value; generation builds a whole new table and never changes the
\* static table USD_EXCHANGE_RATES.
C12_RatesSnapshot ==
    /\ table = USD_EXCHANGE_RATES
    /\ WellFormedRates(table)
    /\ \A rs \in RandomRuns :
          LET x == generateExchangeRates(now, rs)
          IN  x.base = "USD" /\ WellFormedRates(x.rates) /\ WithinOnePercent(x.rates)
    /\ (last.op = "getCurrentExchangeRates" /\ last.generated) =>
          /\ last.res.val.base = "USD"
          /\ WellFormedRates(last.res.val.rates)
          /\ WithinOnePercent(last.res.val.rates)
    /\ (store[EXCHANGE_RATES_KEY].kind = "object"
            /\ store[EXCHANGE_RATES_KEY].source = "simulation") =>
          /\ WellFormedRates(store[EXCHANGE_RATES_KEY].rates)
          /\ WithinOnePercent(store[EXCHANGE_RATES_KEY].rates)

\* a snapshot was generated with the peso 1% below its static rate of 0.0011, and
\* the static table still has 0.0011
C12_Witness ==
    /\ last.op = "getCurrentExchangeRates"
    /\ last.generated
    /\ last.res.val.rates["ARS"] = Num(1089, 6)
    /\ last.res.val.rates["USD"] = Int2Num(1)
    /\ table["ARS"] = Num(11, 4)

\* both tabs have returned from calls in which they generated a quote
BothGenerated == \A t \in Tabs : tabs[t].pc = "done" /\ tabs[t].generated

\* the tabs whose write went through
Written == {t \in Writers : ~tabs[t].writeThrew}

WriteStepOf(t) == tabs[t].pc = "write" /\ tabs'[t].pc = "done"

\* no other caller has written since tab t read the list
NothingWrittenSinceRead(t) == getMovements(store) = tabs[t].movements

\* addMovement run with no write of another caller between its read and its write:
\* when it returns true, the list is what was stored, in order, followed by the
\* movement
C14_Sequential ==
    \A t \in Tabs :
        (WriteStepOf(t) /\ NothingWrittenSinceRead(t) /\ tabs'[t].res = Return(TRUE)) =>
            getMovements(store') = getMovements(store) \o <<tabs[t].movement>>

\* every call returns true or false, never throws; a call that returned false left
\* the store as it was; and when both calls have returned true the stored list ends
\* with the movement of the later writer and is the list that writer read followed
\* by it
C14_Returned ==
    /\ \A m \in RaceMovements :
          /\ LET added == addMovement(store, m, FALSE)
             IN  /\ added.res = Return(TRUE)
                 /\ getMovements(added.store) = getMovements(store) \o <<m>>
          /\ LET added == addSavingGoal(store, m, FALSE)
             IN  /\ added.res = Return(TRUE)
                 /\ getSavingGoals(added.store) = getSavingGoals(store) \o <<m>>
          /\ LET added == addSavingTransaction(store, m, FALSE)
             IN  /\ added.res = Return(TRUE)
                 /\ getSavingTransactions(added.store) = getSavingTransactions(store) \o <<m>>
          /\ addMovement(store, m, TRUE) = [store |-> store, res |-> Return(FALSE),
                                            setItemCalls |-> 1]
    /\ \A t \in Returned : tabs[t].res \in {Return(TRUE), Return(FALSE)}
    /\ (Returned = Tabs /\ \A t \in Tabs : tabs[t].res = Return(TRUE)) =>
          \E t \in Tabs :
              /\ tabs[t].order = 2
              /\ getMovements(store) = tabs[t].movements \o <<tabs[t].movement>>

\* C14: addMovement is a non-atomic read-modify-write.  Run with nothing written
\* between its read and its write, after addMovement(m) returns true getMovements()
\* is every movement stored before, in order, followed by m.  With two callers on
\* one store and their read and write steps interleaved no call throws, and the
\* stored list is always the list the later writer read followed by its movement;
\* the execution in which both calls return true yet only one of the two added
\* movements is in the stored list is C14_Witness.
C14_AddMovementReadModifyWrite == []C14_Returned /\ [][C14_Sequential]_vars

\* both calls returned true; the list held one movement before and holds two now:
\* that one and the movement of tab 2, while the movement of tab 1 is lost
C14_Witness ==
    /\ Returned = Tabs
    /\ \A t \in Tabs : tabs[t].res = Return(TRUE)
    /\ tabs[1].movement = Item("a", 1)
    /\ tabs[2].movement = Item("b", 2)
    /\ tabs[1].order = 1
    /\ getMovements(store) = <<Item("c", 3), Item("b", 2)>>

\* C15: conversion results do not depend on the cache: for any two store states (any
\* cached or generated rates snapshot, any cached quote, or none) and the same
\* arguments, convertToUSD, convertFromUSD, convertCurrency and getExchangeRate
\* return the same result, because they read only the static table
\* USD_EXCHANGE_RATES, which no operation modifies; a quote affects only the ARS case
\* of convertToUSDT and convertFromUSDT, and only as the argument passed.
C15_ConversionIgnoresCache ==
    /\ table = USD_EXCHANGE_RATES
    /\ inp.op = "again" => out = inp.first
    /\ \A c \in ConversionCodes \ {"ARS"}, q \in Quotes :
          /\ convertToUSDT(Int2Num(100), c, q) = convertToUSDT(Int2Num(100), c, NoQuote)
          /\ convertFromUSDT(Int2Num(100), c, q) = convertFromUSDT(Int2Num(100), c, NoQuote)
    /\ convertToUSDT(Int2Num(100), "ARS", Quote(Int2Num(1200)))
          # convertToUSDT(Int2Num(100), "ARS", NoQuote)
    /\ convertFromUSDT(Int2Num(100), "ARS", Quote(Int2Num(1200)))
          # convertFromUSDT(Int2Num(100), "ARS", Quote(Int2Num(1185)))

\* 100 pesos were converted to dollars twice, the second time with a generated
\* snapshot that has the peso at 0.001089 and a quote in the cache, and came to
\* 0.11 dollars both times
C15_Witness ==
    /\ inp.op = "again"
    /\ inp.call = [op |-> "convertToUSD", amount |-> Int2Num(100), code |-> "ARS"]
    /\ inp.first = out
    /\ out = Return(Num(11, 2))
    /\ store[EXCHANGE_RATES_KEY].kind = "object"
    /\ store[EXCHANGE_RATES_KEY].rates["ARS"] = Num(1089, 6)
    /\ store[USDT_QUOTE_KEY].kind = "object"

\* C16: resetFinancialData removes the movements, saving-goals,
\* saving-transactions, USDT-quote and exchange-rates keys and leaves the
\* user-profile, onboarding, app-state and balance-display-currency keys as they
\* were; resetAllData removes every key of STORAGE_KEYS; the keys of the cache
\* functions are STORAGE_KEYS.USDT_QUOTE and STORAGE_KEYS.EXCHANGE_RATES, so the
\* first getCurrentUSDTQuote and the first getCurrentExchangeRates after either
\* reset find nothing, generate a value stamped now and call setItem once, which
\* stores the value unless setItem throws, whatever the cache held before the reset.
C16_FinancialKeys ==
    {"tufinanza_movements", "tufinanza_saving_goals", "tufinanza_saving_transactions",
     "tufinanza_usdt_quote", "tufinanza_exchange_rates"}

C16_KeptKeys ==
    {"tufinanza_user_profile", "tufinanza_onboarding", "tufinanza_app_state",
     "tufinanza_balance_display_currency"}

C16_ResetsAndRegeneration ==
    /\ DOMAIN store = C16_FinancialKeys \cup C16_KeptKeys
    /\ CacheKeys = {STORAGE_KEYS.USDT_QUOTE, STORAGE_KEYS.EXCHANGE_RATES}
    /\ last.op = "resetFinancialData" =>
          /\ last.res = Return(TRUE)
          /\ last.setItemCalls = 0
          /\ \A k \in C16_FinancialKeys : store[k] = AbsentText
          /\ \A k \in C16_KeptKeys : store[k] = last.before[k]
    /\ last.op = "resetAllData" =>
          /\ last.res = Return(TRUE)
          /\ last.setItemCalls = 0
          /\ \A k \in StorageKeys : store[k] = AbsentText
    /\ (last.op \in GetCurrentOps /\ last.afterReset # "none") =>
          /\ last.afterReset \in {"resetAllData", "resetFinancialData"}
          /\ last.before = AbsentText
          /\ last.generated
          /\ last.setItemCalls = 1
          /\ last.res.st = "returned"
          /\ last.res.val.timestamp = DateOf(now)
          /\ last.res.val.source = "simulation"
          /\ ~last.writeThrew => store[last.key] = StringifyReturned(last)
          /\ last.writeThrew => store[last.key] = AbsentText

\* the profile, the onboarding flag, the application state and the display
\* currency are stored; resetFinancialData removed a quote that had been
\* generated at this very instant, and the first getCurrentUSDTQuote after it
\* generated a quote again and stored it
C16_Witness ==
    /\ last.op = "getCurrentUSDTQuote"
    /\ last.afterReset = "resetFinancialData"
    /\ last.cached.kind = "object"
    /\ last.cached.timestamp = DateToJSON(DateOf(now))
    /\ last.cached.source = "simulation"
    /\ last.generated
    /\ store[USDT_QUOTE_KEY] = StringifyReturned(last)
    /\ store[STORAGE_KEYS.USER_PROFILE] = StringifyProfile(SomeProfile)
    /\ store[STORAGE_KEYS.ONBOARDING] = StringifyBoolean(TRUE)
    /\ store[STORAGE_KEYS.APP_STATE] = SomeAppState
    /\ store[STORAGE_KEYS.BALANCE_DISPLAY_CURRENCY] = StringifyString("ARS")
    /\ store[STORAGE_KEYS.MOVEMENTS] = AbsentText

\* the list an update or a delete found, and the list it left, as getMovements and
\* getSavingGoals return them
C17_ListOf(st) ==
    IF last.op \in {"updateMovement", "deleteMovement"} THEN getMovements(st)
    ELSE getSavingGoals(st)

C17_Found == C17_ListOf(last.before)

C17_Left == C17_ListOf(store)

\* the positions of the elements with the id
C17_At(id) == {i \in 1..Len(C17_Found) : C17_Found[i].id = id}

\* the first of them: every other position that has the id is greater
C17_First(id) == CHOOSE i \in C17_At(id) : \A j \in C17_At(id) : i <= j

\* the list left is the list found with only the first element that has the id of
\* the argument replaced by the argument
C17_OnlyFirstReplaced ==
    /\ Len(C17_Left) = Len(C17_Found)
    /\ \A i \in 1..Len(C17_Found) :
          C17_Left[i] = IF i = C17_First(last.arg.id) THEN last.arg ELSE C17_Found[i]

C17_Updates == {"updateMovement", "updateSavingGoal"}

C17_Deletes == {"deleteMovement", "deleteSavingGoal"}

\* what holds of every call whether localStorage.setItem throws or not: an update
\* with an absent id, and updateUserProfile without a profile, return false and
\* write nothing; an update with a present id and a delete with an absent id call
\* setItem once and change no other key; a delete with an absent id leaves the
\* content of the list as it was
C17_InEveryCase ==
    /\ (last.op \in C17_Updates /\ C17_At(last.arg.id) = {}) =>
          /\ last.res = Return(FALSE)
          /\ last.setItemCalls = 0
          /\ store = last.before
    /\ (last.op = "updateUserProfile" /\ getUserProfile(last.before) = NullObject) =>
          /\ last.res = Return(FALSE)
          /\ last.setItemCalls = 0
          /\ store = last.before
    /\ (last.op \in C17_Updates /\ C17_At(last.arg.id) # {}) =>
          /\ last.setItemCalls = 1
          /\ \A k \in StorageKeys : store[k] # last.before[k] =>
                k = (IF last.op = "updateMovement" THEN "tufinanza_movements"
                     ELSE "tufinanza_saving_goals")
    /\ (last.op \in C17_Deletes /\ C17_At(last.arg) = {}) =>
          /\ last.setItemCalls = 1
          /\ C17_Left = C17_Found

\* C17 as stated: updateMovement and updateSavingGoal with an id that is not in
\* the stored list return false, write nothing and leave the store unchanged;
\* with an id that is present they replace only the first element with that id,
\* keeping the length, the order and the other elements; updateUserProfile returns
\* false and writes nothing when no profile is stored; deleteMovement with an
\* absent id returns true and leaves the list content unchanged.
C17_AsStated ==
    /\ C17_InEveryCase
    /\ (last.op \in C17_Updates /\ C17_At(last.arg.id) # {}) => C17_OnlyFirstReplaced
    /\ (last.op \in C17_Deletes /\ C17_At(last.arg) = {}) => last.res = Return(TRUE)

\* C17, amended: as stated where localStorage.setItem does not throw.  Where it
\* throws, an update with a present id replaces nothing and returns false, and a
\* delete with an absent id returns false; both leave the store unchanged.
C17_UpdateAndDelete ==
    /\ C17_InEveryCase
    /\ (last.op \in C17_Updates /\ C17_At(last.arg.id) # {}) =>
          IF last.writeThrew
          THEN last.res = Return(FALSE) /\ store = last.before
          ELSE last.res = Return(TRUE) /\ C17_OnlyFirstReplaced
    /\ (last.op \in C17_Deletes /\ C17_At(last.arg) = {}) =>
          IF last.writeThrew
          THEN last.res = Return(FALSE) /\ store = last.before
          ELSE last.res = Return(TRUE)

\* updateMovement found the movement b, added undated and dated at the epoch since
\* it was read back, and two movements with the id a, and left b, the updated
\* movement and the second a
C17_Witness ==
    /\ last.op = "updateMovement"
    /\ last.arg = Item("a", 9)
    /\ getMovements(last.before) =
          <<[id |-> "b", amount |-> 1, createdAt |-> DateOf(0)], Item("a", 1), Item("a", 2)>>
    /\ last.res = Return(TRUE)
    /\ getMovements(store) =
          <<[id |-> "b", amount |-> 1, createdAt |-> DateOf(0)], Item("a", 9), Item("a", 2)>>

====
